---- MODULE Spec2Model ----
(***************************************************************************)
(* Model of the OBD-II CAN simulators of python_can_simulator:             *)
(*   can_simulator.py     CANBusSimulator  (scenario strategy, full        *)
(*                        dispatcher with modes 01/03/04/09 and DTCs)      *)
(*   physics_obd_sim.py   PhysicsSimulator (physics strategy, mode 01)     *)
(*                                                                         *)
(* One process runs one of the two programs; `strategy` says which.        *)
(*                                                                         *)
(* Numbers.  The programs compute in floating point; the model keeps each  *)
(* quantity as an integer count of a fixed unit, chosen so that the        *)
(* arithmetic of the code is exact in it.  For CANBusSimulator (the units  *)
(* of PhysicsState are given with its dispatcher):                         *)
(*   rpm                      1 r/min                                      *)
(*   speed                    0.1 km/h                                     *)
(*   temperatures             0.01 degC                                    *)
(*   engine_load, throttle    1 %                                          *)
(*   maf_flow                 0.01 g/s                                     *)
(*   fuel_pressure            0.001 bar                                    *)
(*   timing_advance           1/240 deg   (15 + rpm/6000*25 = (3600+rpm)/240)*)
(*   battery_voltage, o2      0.001 V                                      *)
(*   barometric_pressure      0.1 kPa                                      *)
(*   fuel trims               1 %                                          *)
(*   fuel_level               0.000001 %  (one tick burns load * 1e-6 %)   *)
(*   odometer                 1/3600000 km above the value at construction *)
(*                            (one tick adds speed/3600*0.01 km)           *)
(* int(x) of the code is truncation toward zero (Trunc).                   *)
(*                                                                         *)
(* Random draws and the clock are inputs of the actions.  A tick's draws   *)
(* are taken together at one noise level n: gauss(0, s) is n*s, and        *)
(* uniform(a, b) is its midpoint moved by n half-widths; sin(k * tick) is  *)
(* the phase input ph.                                                     *)
(***************************************************************************)
EXTENDS Integers, Sequences, FiniteSets, TLC

VARIABLES
    strategy,          \* "scenario" (can_simulator.py) or "physics" (physics_obd_sim.py)
    simulate_dtcs,     \* CANBusSimulator.simulate_dtcs
    running,           \* self.running
    engine,            \* CANBusSimulator.engine   : EngineState
    vehicle,           \* CANBusSimulator.vehicle  : VehicleState
    current_scenario,  \* CANBusSimulator.current_scenario
    since_change,      \* ticks since _last_scenario_change was set, counted to 1
    clock,             \* time.time() as the simulation loop read it last, in
                       \* tenths of a second after construction
    last_scenario_change,  \* CANBusSimulator._last_scenario_change, on that clock
    scenario_duration,     \* CANBusSimulator._scenario_duration, in seconds
    phase_start_time,      \* PhysicsSimulator.phase_start_time, on that clock
    simulation_tick,   \* CANBusSimulator._simulation_tick
    dtc_codes,         \* CANBusSimulator.dtc_codes, a list of DiagnosticTroubleCode
    state,             \* PhysicsSimulator.state   : PhysicsState
    phase,             \* PhysicsSimulator.phase   : DrivingPhase
    simulation_stats,  \* requests_received, responses_sent, errors
    bus,               \* self.bus: "none", "open", or "closed" after shutdown()
    stopPc,            \* the caller of stop(): where it is inside stop()
    mainPc,            \* the main thread: in "main" (before and in its wait
                       \* loop), in the signal "handler", in the "finally" clause
                       \* of main, or "exited"
    simLoop,           \* simulation/physics thread: "off", at the "head" of its
                       \* while, in its "body", or "exited"
    lisLoop,           \* listener thread: the same
    waited,            \* whole seconds stop() has spent in the join it is in
    passed,            \* the threads that came round to the head of their loop
                       \* in the current second of that join
    rx,                \* the frame bus.recv returned last (NoMessage before the first)
    tx,                \* the frames handed to bus.send while handling rx, in order
    simPc,             \* simulation thread: where it is inside _update_vehicle_state
    simDraw,           \* simulation thread: the draws of the tick in progress
    lisPc,             \* listener thread: where it is inside the handler of rx
    lisCount,          \* listener thread: local dtc_count of the mode-03 handler
    obsPc,             \* a caller of get_current_state: how far its dict is built
    snapshot,          \* the dict get_current_state is building / has returned
    boundary           \* the (dtc_codes, mil_status, dtc_count) values that held
                       \* when a tick of the simulation thread began

vars == <<strategy, simulate_dtcs, running, engine, vehicle, current_scenario,
          since_change, clock, last_scenario_change, scenario_duration,
          phase_start_time,
          simulation_tick, dtc_codes, state, phase,
          simulation_stats, bus, stopPc, mainPc, simLoop, lisLoop, waited, passed,
          rx, tx,
          simPc, simDraw, lisPc, lisCount, obsPc, snapshot, boundary>>

stopVars == <<bus, stopPc, simLoop, lisLoop, waited, passed>>

threadVars == <<simPc, simDraw, lisPc, lisCount, obsPc, snapshot, boundary>>

\* the scenario timer and the phase timer.  Only the specifications of the
\* timers read the clock; the others draw whether a duration has run out and
\* leave the timers as the constructor set them
timerVars == <<clock, last_scenario_change, scenario_duration, phase_start_time>>

----------------------------------------------------------------------------
(* Bounds of the model *)

\* ticks of the simulation loop that a run takes
MaxTick == 2

\* frames that bus.recv delivers in a run
MaxRequests == 2

----------------------------------------------------------------------------
(* Small helpers *)

Min(a, b) == IF a <= b THEN a ELSE b

Max(a, b) == IF a >= b THEN a ELSE b

\* Python int(a / b) for b > 0: truncation toward zero
Trunc(a, b) == IF a >= 0 THEN a \div b ELSE -((-a) \div b)

Clamp(lo, hi, x) == Max(lo, Min(hi, x))

\* s[:n]
Take(s, n) == SubSeq(s, 1, Min(n, Len(s)))

Zeros(n) == [i \in 1..n |-> 0]

\* struct.pack('>H', x) for x in 0..65535
PackH(x) == <<x \div 256, x % 256>>

IsByte(b) == b \in 0..255

NoMessage == [arbitration_id |-> -1, data |-> <<>>]

NoPid == -1

----------------------------------------------------------------------------
(* OBD codec: DTC encoding, supported-PID mask, mode-01 encoders *)

HexDigits == <<"0", "1", "2", "3", "4", "5", "6", "7", "8", "9",
               "A", "B", "C", "D", "E", "F">>

LowerHexDigits == <<"0", "1", "2", "3", "4", "5", "6", "7", "8", "9",
                    "a", "b", "c", "d", "e", "f">>

IsHexDigit(c) == \E i \in 1..16 : HexDigits[i] = c \/ LowerHexDigits[i] = c

HexValue(c) == (CHOOSE i \in 1..16 : HexDigits[i] = c \/ LowerHexDigits[i] = c) - 1

\* the value of a string of hex digits
RECURSIVE HexNumber(_)
HexNumber(s) ==
    IF Len(s) = 0 THEN 0
    ELSE 16 * HexNumber(SubSeq(s, 1, Len(s) - 1)) + HexValue(s[Len(s)])

\* dtc_code[0].upper() for the letters the encoder tells apart
Upper(c) ==
    CASE c = "p" -> "P" [] c = "c" -> "C" [] c = "b" -> "B" [] c = "u" -> "U"
      [] OTHER -> c

\* str.strip() for the blank, the white space of the literals drawn here
RECURSIVE StripLeft(_)
StripLeft(s) == IF Len(s) > 0 /\ s[1] = " " THEN StripLeft(Tail(s)) ELSE s

RECURSIVE StripRight(_)
StripRight(s) ==
    IF Len(s) > 0 /\ s[Len(s)] = " " THEN StripRight(SubSeq(s, 1, Len(s) - 1))
    ELSE s

\* a literal may begin with a sign
HasSign(s) == Len(s) > 0 /\ s[1] \in {"+", "-"}

\* base 16 lets a literal go on with 0x or 0X, and that with one underscore
Unprefixed(s) ==
    IF Len(s) >= 2 /\ s[1] = "0" /\ s[2] \in {"x", "X"}
    THEN LET t == SubSeq(s, 3, Len(s))
         IN  IF Len(t) > 0 /\ t[1] = "_" THEN Tail(t) ELSE t
    ELSE s

\* what is left must be hex digits, with single underscores between digits
IsDigitString(s) ==
    /\ Len(s) > 0
    /\ IsHexDigit(s[1]) /\ IsHexDigit(s[Len(s)])
    /\ \A i \in 2..(Len(s) - 1) :
         \/ IsHexDigit(s[i])
         \/ s[i] = "_" /\ IsHexDigit(s[i - 1]) /\ IsHexDigit(s[i + 1])

\* int(number_part, 16); ok = FALSE stands for ValueError
int_base16(s) ==
    LET t == StripRight(StripLeft(s))
        u == IF HasSign(t) THEN Tail(t) ELSE t
        w == Unprefixed(u)
    IN  IF IsDigitString(w)
        THEN [ok |-> TRUE,
              value |-> (IF HasSign(t) /\ t[1] = "-" THEN -1 ELSE 1)
                        * HexNumber(SelectSeq(w, IsHexDigit))]
        ELSE [ok |-> FALSE, value |-> 0]

\* an encoder that keeps 3 bits of the digit after the letter's two
BadEncodeDtc(dtc_code) ==
    IF Len(dtc_code) # 5 THEN <<0, 0>>
    ELSE LET number == int_base16(SubSeq(dtc_code, 2, 5))
             letter == Upper(dtc_code[1])
         IN  <<(CASE letter = "C" -> 64 [] letter = "B" -> 128
                  [] letter = "U" -> 192 [] OTHER -> 0)
               + ((number.value \div 256) % 8), number.value % 256>>

\* _encode_dtc: a code is a sequence of one-character strings.  With number
\* negative, (number >> 8) & 0x3F and number & 0xFF are the bits of its two's
\* complement, which \div (rounding down) and % give
encode_dtc(dtc_code) ==
    IF Len(dtc_code) # 5 THEN <<0, 0>>
    ELSE LET first_char  == Upper(dtc_code[1])
             number_part == SubSeq(dtc_code, 2, 5)
             first_byte  == CASE first_char = "P" -> 0
                              [] first_char = "C" -> 64
                              [] first_char = "B" -> 128
                              [] first_char = "U" -> 192
                              [] OTHER -> 0
             number      == int_base16(number_part)
         IN  IF number.ok
             \* first_byte |= (number >> 8) & 0x3F ; number & 0xFF
             THEN <<first_byte + ((number.value \div 256) % 64),
                    number.value % 256>>
             ELSE <<0, 0>>   \* ValueError

\* _initialize_supported_pids
supported_pids(pid_range) ==
    CASE pid_range = 0  -> {1, 4, 5, 6, 7, 10, 11, 12, 13, 14, 15, 16, 17, 19,
                            20, 21, 31}
      [] pid_range = 32 -> {33, 34, 47, 51}
      [] pid_range = 64 -> {66, 67, 70, 77, 78}
      [] OTHER -> {}

RECURSIVE Pow2(_)
Pow2(n) == IF n = 0 THEN 1 ELSE 2 * Pow2(n - 1)

\* the byte with bit 7 - b % 8 set for every bit position b of S
RECURSIVE MaskByte(_)
MaskByte(S) ==
    IF S = {} THEN 0
    ELSE LET b == CHOOSE y \in S : TRUE
         IN  Pow2(7 - (b % 8)) + MaskByte(S \ {b})

\* _get_supported_pids_mask followed by struct.pack('>I', mask): the four
\* bytes of the mask, most significant first (bit 31 - bit_position of the
\* mask is bit 7 - bit_position % 8 of byte bit_position \div 8)
get_supported_pids_mask(pid_range) ==
    LET bits == {pid - (pid_range + 1) : pid \in supported_pids(pid_range)}
        inmask == {b \in bits : 0 <= b /\ b < 32}
    IN  [k \in 1..4 |-> MaskByte({b \in inmask : b \div 8 = k - 1})]

\* The value a mode-01 handler appends for a PID:
\*   kind "data"        response_data gets `bytes` (an element may be outside
\*                      0..255: the handler does not clamp every quantity)
\*   kind "error"       struct.pack raised (value outside 0..65535)
\*   kind "unsupported" no branch of the if-chain matches
Data(bytes) == [kind |-> "data", bytes |-> bytes]

PackedH(x) == IF x \in 0..65535 THEN Data(PackH(x))
              ELSE [kind |-> "error", bytes |-> <<>>]

current_data_bytes(pid, e, v) ==
    CASE pid = 0   -> Data(get_supported_pids_mask(0))
      [] pid = 12  -> PackedH(e.rpm * 4)
      [] pid = 13  -> Data(<<Trunc(v.speed, 10)>>)
      [] pid = 5   -> Data(<<Clamp(0, 255, Trunc(e.coolant_temp + 4000, 100))>>)
      [] pid = 4   -> Data(<<Clamp(0, 255, Trunc(e.engine_load * 255, 100))>>)
      [] pid = 17  -> Data(<<Clamp(0, 255, Trunc(e.throttle_position * 255, 100))>>)
      [] pid = 15  -> Data(<<Clamp(0, 255, Trunc(e.intake_air_temp + 4000, 100))>>)
      [] pid = 16  -> PackedH(Clamp(0, 65535, e.maf_flow))
      [] pid = 47  -> Data(<<Clamp(0, 255,
                         Trunc(Trunc(v.fuel_level, 10000) * 255
                               + Trunc((v.fuel_level % 10000) * 255, 10000), 10000))>>)
      [] pid = 66  -> PackedH(Clamp(0, 65535, v.battery_voltage))
      [] pid = 70  -> Data(<<Clamp(0, 255, Trunc(v.ambient_temperature + 4000, 100))>>)
      [] pid = 10  -> Data(<<Clamp(0, 255, Trunc(e.fuel_pressure, 30))>>)
      [] pid = 14  -> Data(<<Clamp(0, 255, Trunc(e.timing_advance + 15360, 120))>>)
      [] pid = 20  -> Data(<<Clamp(0, 255, Trunc(v.o2_sensor1_voltage, 5)), 255>>)
      [] pid = 6   -> Data(<<Clamp(0, 255, Trunc(v.short_fuel_trim_bank1 * 128 + 12800, 100))>>)
      [] pid = 7   -> Data(<<Clamp(0, 255, Trunc(v.long_fuel_trim_bank1 * 128 + 12800, 100))>>)
      [] pid = 31  -> PackedH(Min(65535, e.runtime_since_start))
      [] pid = 51  -> Data(<<Clamp(0, 255, Trunc(v.barometric_pressure, 10))>>)
      [] pid = 165 -> Data(<<v.gear>>)
      [] pid = 168 -> Data(<<v.speed_limit>>)
      [] OTHER     -> [kind |-> "unsupported", bytes |-> <<>>]

\* the PIDs with a branch in _handle_current_data_request
HandledPids == {0, 12, 13, 5, 4, 17, 15, 16, 47, 66, 70, 10, 14, 20, 6, 7, 31,
                51, 165, 168}

----------------------------------------------------------------------------
(* OBD request dispatcher of CANBusSimulator *)

\* A handler's effect: the frames it hands to bus.send (ok tells whether that
\* send returned or raised), what it adds to responses_sent, and the vehicle
\* state and DTC list it leaves.
Outcome(frames, sent, v, d) ==
    [tx |-> frames, responses_sent |-> sent, vehicle |-> v, dtc_codes |-> d]

\* can.Message(...) raises ValueError for a data element outside 0..255; both
\* senders build the message inside their try, so nothing is sent then.
Sendable(data) == \A i \in 1..Len(data) : IsByte(data[i])

Padded8(data) == IF Len(data) < 8 THEN data \o Zeros(8 - Len(data)) ELSE data

\* the test at the head of _process_can_message: 0x7DF or 0x7E0..0x7E7
IsObdRequestId(arbitration_id) ==
    arbitration_id = 2015 \/ (2016 <= arbitration_id /\ arbitration_id <= 2023)

\* _send_obd_response
send_obd_response(request_id, response_data, ok, v, d) ==
    LET response_id   == IF request_id = 2015 THEN 2024 ELSE request_id + 8
        full_response == Padded8(Take(<<Len(response_data)>> \o response_data, 8))
    IN  IF Sendable(full_response)
        THEN Outcome(<<[arbitration_id |-> response_id, data |-> full_response,
                        ok |-> ok]>>,
                     IF ok THEN 1 ELSE 0, v, d)
        ELSE Outcome(<<>>, 0, v, d)

\* a negative response with the mode and the response code in each other's
\* place
BadNegativeResponse(request_id, mode, pid, ok, v, d) ==
    Outcome(<<[arbitration_id |-> request_id + 8,
               data |-> Padded8(<<127, 18, mode>>), ok |-> ok]>>, 0, v, d)

\* _send_negative_response (pid = NoPid stands for pid=None). The debug log
\* line after bus.send raises on its format spec; the handler's own except
\* swallows it after the frame has gone out, so it changes nothing here.
send_negative_response(request_id, mode, pid, ok, v, d) ==
    LET response_id       == request_id + 8
        negative_response == <<127, mode, 18>>
                             \o (IF pid # NoPid THEN <<pid>> ELSE <<>>)
        data              == Padded8(negative_response)
    IN  IF Sendable(data)
        THEN Outcome(<<[arbitration_id |-> response_id, data |-> data,
                        ok |-> ok]>>, 0, v, d)
        ELSE Outcome(<<>>, 0, v, d)

\* _handle_current_data_request (mode 01)
handle_current_data_request(request, ok, e, v, d) ==
    IF Len(request.data) < 3 THEN Outcome(<<>>, 0, v, d)
    ELSE LET requested_pid == request.data[3]
             r == current_data_bytes(requested_pid, e, v)
         IN  IF r.kind = "data"
             THEN send_obd_response(request.arbitration_id,
                                    <<65, requested_pid>> \o r.bytes, ok, v, d)
             ELSE send_negative_response(request.arbitration_id, 1,
                                         requested_pid, ok, v, d)

IsConfirmed(dtc) == dtc.status = "confirmed"

\* the encodings of a list of DTCs, concatenated
RECURSIVE EncodeAll(_)
EncodeAll(dtcs) ==
    IF Len(dtcs) = 0 THEN <<>>
    ELSE encode_dtc(dtcs[1].code) \o EncodeAll(Tail(dtcs))

\* the two halves of _handle_diagnostic_codes_request: the count of the
\* confirmed DTCs, and the loop over dtc_codes[:3]
confirmed_count(d) == Len(SelectSeq(d, IsConfirmed))

encoded_dtcs(d) == EncodeAll(SelectSeq(Take(d, 3), IsConfirmed))

\* a mode-03 handler that stores the count it reports
BadDiagnosticCodes(request, ok, v, d) ==
    send_obd_response(request.arbitration_id,
                      <<67, confirmed_count(d)>> \o encoded_dtcs(d), ok,
                      [v EXCEPT !.dtc_count = confirmed_count(d)], d)

\* _handle_diagnostic_codes_request (mode 03)
handle_diagnostic_codes_request(request, ok, v, d) ==
    send_obd_response(request.arbitration_id,
                      <<67, confirmed_count(d)>> \o encoded_dtcs(d), ok, v, d)

\* a clear handler that forgets to switch the MIL off
BadClearCodes(request, ok, v, d) ==
    send_obd_response(request.arbitration_id, <<68>>, ok,
                      [v EXCEPT !.dtc_count = 0], <<>>)

\* _handle_clear_codes_request (mode 04)
handle_clear_codes_request(request, ok, v, d) ==
    send_obd_response(request.arbitration_id, <<68>>, ok,
                      [v EXCEPT !.mil_status = FALSE, !.dtc_count = 0], <<>>)

\* [ord(c) for c in "1HGBH41JXMN109186"]
VinBytes == <<49, 72, 71, 66, 72, 52, 49, 74, 88, 77, 78, 49, 48, 57, 49, 56, 54>>

\* [ord(c) for c in "CAL001234567890"[:16]]
CalIdBytes == <<67, 65, 76, 48, 48, 49, 50, 51, 52, 53, 54, 55, 56, 57, 48>>

\* _handle_vehicle_info_request (mode 09): info_type is read from
\* request.data[1], the byte that holds the mode
handle_vehicle_info_request(request, ok, v, d) ==
    IF Len(request.data) < 2 THEN Outcome(<<>>, 0, v, d)
    ELSE LET info_type == request.data[2]
         IN  CASE info_type = 2 ->
                    send_obd_response(request.arbitration_id,
                                      <<73, info_type, 1>> \o VinBytes, ok, v, d)
               [] info_type = 4 ->
                    send_obd_response(request.arbitration_id,
                                      <<73, info_type, 1>> \o CalIdBytes, ok, v, d)
               [] OTHER ->
                    send_negative_response(request.arbitration_id, 9,
                                           info_type, ok, v, d)

\* a filter that lets every id from 0x7DF upward through
BadRequestFilter(message) ==
    message.arbitration_id >= 2015 /\ Len(message.data) >= 3

\* a filter satisfied with a PCI byte and a mode byte
BadLengthFilter(message) ==
    IsObdRequestId(message.arbitration_id) /\ Len(message.data) >= 2

\* the two early returns of _process_can_message
is_obd_request(message) ==
    IsObdRequestId(message.arbitration_id) /\ Len(message.data) >= 3

\* _process_can_message: data[0] is the PCI byte, data[1] the mode
process_can_message(message, ok, e, v, d) ==
    IF ~is_obd_request(message) THEN Outcome(<<>>, 0, v, d)
    ELSE LET mode == message.data[2]
         IN  CASE mode = 1 -> handle_current_data_request(message, ok, e, v, d)
               [] mode = 3 -> handle_diagnostic_codes_request(message, ok, v, d)
               [] mode = 4 -> handle_clear_codes_request(message, ok, v, d)
               [] mode = 9 -> handle_vehicle_info_request(message, ok, v, d)
               [] OTHER    -> send_negative_response(message.arbitration_id,
                                                     mode, NoPid, ok, v, d)

----------------------------------------------------------------------------
(* OBD request dispatcher of PhysicsSimulator.  PhysicsState units:         *)
(*   speed          1 mm/s (0.0036 km/h; the code's speed_ms, so that the  *)
(*                  conversions /3.6 and *3.6 of _update_physics are exact)*)
(*   acceleration   1 mm/s^2                                               *)
(*   rpm            0.01 r/min                                             *)
(*   throttle, brake  0.01 %                                               *)
(*   engine_temp    0.001 degC                                             *)
(*   fuel_level     0.01 %                                                 *)
(*   odometer       1 mm above the value at construction (12345.6 km)      *)
(* A speed in km/h times 5000 is the model's speed times 18.               *)

\* _get_obd2_response; <<>> stands for None
get_obd2_response(pid, st) ==
    CASE pid = 12 -> LET rpm_value == Trunc(st.rpm * 4, 100)
                     IN  <<(rpm_value \div 256) % 256, rpm_value % 256>>
      [] pid = 13 -> <<Trunc(st.speed * 18, 5000)>>
      [] pid = 5  -> <<Trunc(st.engine_temp + 40000, 1000)>>
      [] pid = 17 -> <<Trunc(st.throttle * 255, 10000)>>
      [] pid = 4  -> <<Trunc(st.throttle * 7140 + st.rpm * 51, 400000)>>
      [] pid = 47 -> <<Trunc(st.fuel_level * 255, 10000)>>
      [] pid = 49 -> LET odometer_value == 123456 + st.odometer \div 100000
                     IN  <<(odometer_value \div 256) % 256, odometer_value % 256>>
      [] OTHER    -> <<>>

\* _send_obd2_response: always on 0x7E8; the message is built outside the try
send_obd2_response(pid, data, ok) ==
    LET response_data == Padded8(<<Len(data) + 2, 65, pid>> \o data)
    IN  IF Sendable(Take(response_data, 8))
        THEN <<[arbitration_id |-> 2024, data |-> Take(response_data, 8),
                ok |-> ok]>>
        ELSE <<>>

\* PhysicsSimulator._process_can_message: the frames it hands to bus.send
physics_process_can_message(message, ok, st) ==
    IF ~(message.arbitration_id = 2015
         \/ (2016 <= message.arbitration_id /\ message.arbitration_id <= 2023))
    THEN <<>>
    ELSE IF Len(message.data) < 3 THEN <<>>
    ELSE LET length == message.data[1]
             mode   == message.data[2]
         IN  IF mode = 1 /\ length >= 2
             THEN LET pid      == message.data[3]
                      response == get_obd2_response(pid, st)
                  IN  IF response # <<>> THEN send_obd2_response(pid, response, ok)
                      ELSE <<>>
             ELSE <<>>

----------------------------------------------------------------------------
(* Scenario strategy: one pass of _update_vehicle_state *)

Scenarios == {"idle", "city", "highway", "aggressive", "eco", "parking",
              "traffic_jam"}

\* the levels a tick's random draws are taken at, and the phases of its sines
Noise == {-1, 0, 1}

Phase == {-1, 0, 1}

\* random.uniform(a, b) at noise level n
Uniform(a, b, n) == (a + b) \div 2 + n * ((b - a) \div 2)

\* _simulate_idle (vehicle.gear is not assigned)
simulate_idle(e, v, n) ==
    [engine  |-> [e EXCEPT !.rpm = 800 + 30 * n,
                           !.throttle_position = 0,
                           !.engine_load = Uniform(15, 25, n),
                           !.maf_flow = Uniform(200, 400, n)],
     vehicle |-> [v EXCEPT !.speed = 0]]

\* gear_ratios, times 100
gear_ratios(gear) ==
    CASE gear = 1 -> 350 [] gear = 2 -> 210 [] gear = 3 -> 140
      [] gear = 4 -> 100 [] gear = 5 -> 80  [] gear = 6 -> 65
      [] OTHER -> 100

\* _calculate_rpm_for_speed: the rpm it returns and the gear it stores.
\* gear_arg is {} for gear=None and {g} for gear=g; speed in 0.1 km/h.
\* engine_rpm = speed/10 * 1000/60 / 2.07 * ratio/100 * 3.73
\*            = speed * ratio * 373 / 12420
calculate_rpm_for_speed(speed_kmh, gear_arg) ==
    IF speed_kmh <= 0 THEN [rpm |-> 800, gear |-> 0]
    ELSE LET gear == IF gear_arg # {} THEN CHOOSE g \in gear_arg : TRUE
                     ELSE IF speed_kmh < 200 THEN 1
                     ELSE IF speed_kmh < 400 THEN 2
                     ELSE IF speed_kmh < 600 THEN 3
                     ELSE IF speed_kmh < 800 THEN 4
                     ELSE IF speed_kmh < 1100 THEN 5
                     ELSE 6
             engine_rpm == (speed_kmh * gear_ratios(gear) * 373) \div 12420
         IN  [rpm |-> Max(800, Min(7000, engine_rpm)), gear |-> gear]

\* the scenario branch of _update_vehicle_state: _simulate_<scenario>.
\* n: noise level, ph: phase of the sine, jam: random() < 0.3 in a traffic jam
simulate_scenario(scenario, e, v, n, ph, jam) ==
    CASE scenario = "idle" -> simulate_idle(e, v, n)
      [] scenario = "city" ->
           LET speed == Max(0, 400 + 150 * ph + 50 * n)
               r     == calculate_rpm_for_speed(speed, {})
           IN  [engine  |-> [e EXCEPT !.rpm = r.rpm,
                                      !.throttle_position = Uniform(20, 60, n),
                                      !.engine_load = Uniform(30, 70, n),
                                      !.maf_flow = Uniform(800, 2500, n)],
                vehicle |-> [v EXCEPT !.speed = speed, !.gear = r.gear,
                                      !.speed_limit = 50 + 10 * n]]
      [] scenario = "highway" ->
           LET speed == 1100 + 100 * ph + 30 * n
               r     == calculate_rpm_for_speed(speed, {6})
           IN  [engine  |-> [e EXCEPT !.rpm = r.rpm,
                                      !.throttle_position = Uniform(40, 70, n),
                                      !.engine_load = Uniform(40, 80, n),
                                      !.maf_flow = Uniform(1500, 3500, n)],
                vehicle |-> [v EXCEPT !.speed = speed, !.gear = r.gear,
                                      !.speed_limit = 110 + 20 * n]]
      [] scenario = "aggressive" ->
           [engine  |-> [e EXCEPT !.rpm = Uniform(3000, 6500, n),
                                  !.throttle_position = Uniform(70, 100, n),
                                  !.engine_load = Uniform(70, 95, n),
                                  !.maf_flow = Uniform(2500, 5000, n)],
            vehicle |-> [v EXCEPT !.speed = Uniform(600, 1400, n)]]
      [] scenario = "eco" ->
           LET speed == Uniform(500, 900, n)
               r     == calculate_rpm_for_speed(speed, {})
           IN  [engine  |-> [e EXCEPT !.rpm = Min(2500, r.rpm),
                                      !.throttle_position = Uniform(10, 40, n),
                                      !.engine_load = Uniform(20, 50, n),
                                      !.maf_flow = Uniform(500, 2000, n)],
                vehicle |-> [v EXCEPT !.speed = speed, !.gear = r.gear]]
      [] scenario = "traffic_jam" ->
           IF jam THEN simulate_idle(e, v, n)
           ELSE LET speed == Uniform(50, 250, n)
                    r     == calculate_rpm_for_speed(speed, {})
                IN  [engine  |-> [e EXCEPT !.rpm = r.rpm,
                                           !.throttle_position = Uniform(10, 30, n),
                                           !.engine_load = Uniform(25, 45, n),
                                           !.maf_flow = Uniform(500, 1500, n)],
                     vehicle |-> [v EXCEPT !.speed = speed, !.gear = r.gear]]
      [] OTHER ->   \* parking
           IF e.is_running THEN simulate_idle(e, v, n)
           ELSE [engine  |-> [e EXCEPT !.rpm = 0, !.throttle_position = 0,
                                       !.engine_load = 0, !.maf_flow = 0],
                 vehicle |-> [v EXCEPT !.speed = 0]]

\* an odometer step that stores the tick's distance instead of adding it
BadUpdateOdometer(v) ==
    IF v.speed > 1 THEN v.speed ELSE v.odometer

\* the odometer step of _update_correlated_parameters: the distance of one
\* 10 ms tick is added when the vehicle moves faster than 0.1 km/h
update_odometer(v) ==
    IF v.speed > 1 THEN v.odometer + v.speed ELSE v.odometer

\* a fuel step without the floor at 0
BadConsumeFuel(e, v) ==
    IF e.is_running THEN v.fuel_level - e.engine_load ELSE v.fuel_level

\* the fuel step of _update_correlated_parameters: a running engine burns
\* engine_load/100 * 0.0001 % per tick, and the level stops at 0
consume_fuel(e, v) ==
    IF e.is_running THEN Max(0, v.fuel_level - e.engine_load) ELSE v.fuel_level

\* _update_correlated_parameters
update_correlated_parameters(e, v, n, ph) ==
    LET target_temp == 8500 + e.engine_load * 20
                       - (IF v.speed > 500 THEN 500 ELSE 0)
        coolant     == e.coolant_temp + Trunc(target_temp - e.coolant_temp, 100)
    IN  [engine  |-> [e EXCEPT
                        !.coolant_temp = coolant,
                        !.oil_temp = coolant + Uniform(500, 1500, n),
                        !.intake_air_temp = v.ambient_temperature
                                            + e.engine_load * 30 + 300 * n,
                        !.fuel_pressure = 3500 + e.engine_load * 15,
                        !.timing_advance = 3600 + e.rpm],
         vehicle |-> [v EXCEPT
                        !.battery_voltage =
                            (IF e.is_running THEN 14200 ELSE 12600) + 200 * n,
                        !.o2_sensor1_voltage = 450 + 100 * ph + 20 * n,
                        !.o2_sensor2_voltage = 470 + 100 * ph + 20 * n,
                        !.short_fuel_trim_bank1 = 3 * n,
                        !.long_fuel_trim_bank1 = 5 * n,
                        !.odometer = update_odometer(v),
                        !.fuel_level = consume_fuel(e, v)]]

----------------------------------------------------------------------------
(* Physics strategy: one pass of _physics_loop.  Times are clock readings: *)
(* dt in 0.01 s, phase_time in s.  Forces are in N, power in W.            *)

\* list(DrivingPhase)
DrivingPhases ==
    <<"city_1", "light_1", "city_2", "light_2", "highway", "parking">>

\* phase_durations, s
phase_durations(p) ==
    CASE p \in {"city_1", "city_2"} -> 180
      [] p \in {"light_1", "light_2"} -> 30
      [] p = "highway" -> 300
      [] OTHER -> 60

\* the gaps time.time() shows between two passes: the nominal 10 ms, and 1 s
\* when the thread was held up (or, on the first pass, since construction)
Dt == {1, 100}

\* readings of time.time() - phase_start_time, s
PhaseTimes == {0, 15, 40}

\* _update_phase: expired is phase_elapsed > phase_durations[phase]
update_phase(p, expired) ==
    IF expired
    THEN LET current_index == CHOOSE i \in 1..6 : DrivingPhases[i] = p
         IN  DrivingPhases[(current_index % 6) + 1]
    ELSE p

\* target_speed of _update_scenario, in m/h; ph is the phase of its sine
target_speed(p, phase_time, ph) ==
    CASE p \in {"city_1", "city_2"} ->
           IF phase_time % 30 < 5 THEN 20000 ELSE 50000 + 10000 * ph
      [] p \in {"light_1", "light_2"} ->
           IF phase_time < 10 THEN Max(0, 50000 - phase_time * 5000)
           ELSE IF phase_time < 20 THEN 0
           ELSE Min(50000, (phase_time - 20) * 5000)
      [] p = "highway" ->
           IF phase_time < 30 THEN 50000 + (phase_time * 65000) \div 30
           ELSE IF phase_time < 270 THEN 115000 + 5000 * ph
           ELSE 115000 - ((phase_time - 270) * 65000) \div 30
      [] OTHER ->
           IF phase_time < 10 THEN Max(0, 50000 - phase_time * 5000) ELSE 0

\* _update_scenario: throttle and brake steer the speed to target_speed.
\* speed_diff is held in 1/5000 km/h (target * 5 - speed * 18), so 2 km/h
\* is 10000 and speed_diff * 5 in 0.01 % is speed_diff \div 10
update_scenario(st, p, phase_time, ph, dt) ==
    LET speed_diff == target_speed(p, phase_time, ph) * 5 - st.speed * 18
        target_throttle ==
            IF speed_diff > 10000 THEN Min(8000, Trunc(speed_diff, 10))
            ELSE IF speed_diff < -10000 THEN 0
            ELSE IF st.speed * 18 > 5000
                 THEN 2000 + Trunc(st.speed * 108, 1000)
                 ELSE 0
        brake == IF speed_diff < -10000 THEN Min(8000, Trunc(-speed_diff, 10))
                 ELSE 0
        throttle_diff == target_throttle - st.throttle
        throttle == st.throttle + Trunc(throttle_diff * dt * 3, 100)
    IN  [st EXCEPT !.brake = brake,
                   !.throttle = Max(0, Min(10000, throttle))]

\* engine_force of _update_physics: power over speed, held to
\* max_torque * 10.  rpm_normalized and power_factor are in 1/10000
engine_force(st) ==
    IF st.throttle > 0
    THEN LET rpm_normalized == Trunc(st.rpm, 60)
             power_factor == Trunc(Trunc(rpm_normalized, 10)
                                   * Trunc(20000 - rpm_normalized, 10), 100)
             power == Trunc(Trunc(power_factor, 10) * Trunc(st.throttle, 10),
                            100) * 15
             speed_ms == Max(st.speed, 1000)
             force == IF power > 2000000 THEN 3500
                      ELSE IF power < -2000000
                      THEN Trunc(power * 10, Trunc(speed_ms, 100))
                      ELSE Trunc(power * 1000, speed_ms)
         IN  Min(force, 3500)
    ELSE 0

\* a speed update without the floor at 0
BadIntegrateSpeed(speed_ms, acceleration, dt) ==
    speed_ms + Trunc(acceleration * dt, 100)

\* speed_ms += acceleration * dt; speed_ms = max(0, speed_ms)
integrate_speed(speed_ms, acceleration, dt) ==
    Max(0, speed_ms + Trunc(acceleration * dt, 100))

\* _update_rpm: the rpm follows target_rpm with a lag, then the flutter
\* sin(time.time() * 10) * 5 is added; jitter is the sine at -1, 0 or 1.
\* target_rpm = speed * 3.6 * 1000/60 / (0.65 * pi) * ratio * 4.1
\*            = speed[mm/s] * ratio100 * 0.001205 r/min
update_rpm(st, dt, jitter) ==
    LET target_rpm ==
            IF st.speed * 18 < 500 THEN 80000 + st.throttle * 20
            ELSE Max(80000, Min(650000,
                     Trunc(Trunc(st.speed * gear_ratios(st.gear), 10) * 1205,
                           1000)
                     + st.throttle * 10))
        rpm_diff == target_rpm - st.rpm
    IN  [st EXCEPT !.rpm = st.rpm + Trunc(rpm_diff * dt * 3, 100) + 500 * jitter]

\* _update_gear
update_gear(st) ==
    LET speed == st.speed * 18
    IN  [st EXCEPT !.gear = IF speed < 20 * 5000 THEN 1
                            ELSE IF speed < 40 * 5000 THEN 2
                            ELSE IF speed < 60 * 5000 THEN 3
                            ELSE IF speed < 80 * 5000 THEN 4
                            ELSE IF speed < 100 * 5000 THEN 5
                            ELSE 6]

\* _update_physics: forces, acceleration, speed, odometer, then _update_rpm
\* and _update_gear.  air_resistance = 0.40425 * speed_ms^2, rolling
\* resistance = 0.015 * 1500 * 9.81 N, acceleration = total_force / 1500
update_physics(st, dt, jitter) ==
    LET brake_force == Trunc(st.brake * 3, 2)
        cm_s == Trunc(st.speed, 10)
        air_resistance == Trunc(Trunc(cm_s * cm_s, 1000) * 40425, 1000000)
        rolling_resistance == 221
        total_force == engine_force(st) - brake_force - air_resistance
                       - rolling_resistance
        acceleration == Trunc(total_force * 2, 3)
        speed_ms == integrate_speed(st.speed, acceleration, dt)
        odometer == IF speed_ms > 0 THEN st.odometer + Trunc(speed_ms * dt, 100)
                    ELSE st.odometer
        moved == [st EXCEPT !.acceleration = acceleration, !.speed = speed_ms,
                            !.odometer = odometer]
    IN  CHOOSE s \in {update_gear(turning) :
                        turning \in {update_rpm(m, dt, jitter) : m \in {moved}}} :
            TRUE

\* _update_temperature
update_temperature(st, dt) ==
    LET target_temp == IF st.rpm > 80000 THEN 85000 + st.throttle ELSE 20000
        temp_diff == target_temp - st.engine_temp
    IN  [st EXCEPT !.engine_temp =
                      Min(95000, st.engine_temp + Trunc(temp_diff * dt * 2, 10000))]

\* the body of _physics_loop's while: _update_phase, _update_scenario,
\* _update_physics, _update_temperature, each on the state the one before
\* it left
physics_step(st, p, expired, phase_time, ph, dt, jitter) ==
    CHOOSE r \in
        {[state |-> update_temperature(s2, dt), phase |-> next_phase] :
            s2 \in {update_physics(s1, dt, jitter) :
                      s1 \in {update_scenario(st, next_phase, phase_time, ph, dt) :
                                next_phase \in {update_phase(p, expired)}}},
            next_phase \in {update_phase(p, expired)}} : TRUE

----------------------------------------------------------------------------
(* Diagnostic trouble codes *)

Code(a, b, c, d, e) == <<a, b, c, d, e>>

Dtc(code, status) == [code |-> code, status |-> status]

\* demo_codes of _initialize_demo_dtcs
demo_codes == <<Dtc(Code("P", "0", "4", "2", "0"), "confirmed"),
                Dtc(Code("P", "0", "1", "7", "1"), "pending"),
                Dtc(Code("P", "0", "3", "0", "1"), "confirmed")>>

\* random.sample(demo_codes, random.randint(1, 2)): one or two of them, in
\* any order
DemoSamples ==
    {<<demo_codes[i]>> : i \in 1..3}
    \cup {<<demo_codes[p[1]], demo_codes[p[2]]>> :
             p \in {q \in (1..3) \X (1..3) : q[1] # q[2]}}

\* possible_codes of _add_random_dtc
possible_codes == <<Code("P", "0", "1", "0", "0"), Code("P", "0", "1", "1", "0"),
                    Code("P", "0", "1", "3", "0"), Code("P", "0", "3", "4", "0"),
                    Code("P", "0", "5", "0", "5"), Code("U", "0", "0", "0", "1")>>

\* the catalog entries a run draws from
DrawnCodes == {possible_codes[1], possible_codes[2]}

\* _initialize_demo_dtcs with random() < 0.7: sample is what random.sample gave
initialize_demo_dtcs(v, d, sample) ==
    [dtc_codes |-> d \o sample,
     vehicle   |-> [v EXCEPT !.mil_status = TRUE,
                             !.dtc_count = Len(d \o sample)]]

\* tests of _add_random_dtc that let every draw through
BadMayAddDtc(d, code) == TRUE

\* the two tests of _add_random_dtc: fewer than 5 codes, and code not held
may_add_dtc(d, code) ==
    Len(d) < 5 /\ ~(\E i \in 1..Len(d) : d[i].code = code)

\* self.dtc_codes.append(new_dtc), new_dtc being pending
append_new_dtc(d, code) == Append(d, Dtc(code, "pending"))

\* new_dtc.status = "confirmed": new_dtc is the object appended last
confirm_new_dtc(d) == [d EXCEPT ![Len(d)].status = "confirmed"]

\* the list d still holds new_dtc, the object this tick appended for code:
\* only the simulation thread appends, so the object is the last entry
\* unless a clear has emptied the list since
holds_new_dtc(d, code) == Len(d) > 0 /\ d[Len(d)].code = code

\* _add_random_dtc: code is random.choice(possible_codes), promote is
\* random() < 0.3
add_random_dtc(v, d, code, promote) ==
    IF may_add_dtc(d, code)
    THEN IF promote
         THEN [dtc_codes |-> confirm_new_dtc(append_new_dtc(d, code)),
               vehicle   |-> [v EXCEPT !.mil_status = TRUE]]
         ELSE [dtc_codes |-> append_new_dtc(d, code), vehicle |-> v]
    ELSE [dtc_codes |-> d, vehicle |-> v]

----------------------------------------------------------------------------
(* The state after construction *)

\* EngineState()
InitEngine ==
    [rpm |-> 800, coolant_temp |-> 9000, oil_temp |-> 8500,
     intake_air_temp |-> 2500, engine_load |-> 0, throttle_position |-> 0,
     maf_flow |-> 350, fuel_pressure |-> 3500, timing_advance |-> 3600,
     is_running |-> TRUE, runtime_since_start |-> 0]

\* VehicleState()
InitVehicle ==
    [speed |-> 0, odometer |-> 0, fuel_level |-> 75000000,
     battery_voltage |-> 12600, ambient_temperature |-> 2000,
     barometric_pressure |-> 1013, gear |-> 0, speed_limit |-> 60,
     mil_status |-> FALSE, dtc_count |-> 0, fuel_system_status |-> 2,
     o2_sensor1_voltage |-> 450, o2_sensor2_voltage |-> 470,
     short_fuel_trim_bank1 |-> 0, long_fuel_trim_bank1 |-> 0]

\* PhysicsState()
InitPhysicsState ==
    [speed |-> 0, acceleration |-> 0, rpm |-> 80000, throttle |-> 0, brake |-> 0,
     gear |-> 1, engine_temp |-> 20000, fuel_level |-> 7500,
     odometer |-> 0]

\* simulation_stats of CANBusSimulator.__init__
InitStats == [requests_received |-> 0, responses_sent |-> 0, errors |-> 0]

NoSnapshot == [mil_status |-> FALSE, dtc_count |-> 0, dtc_codes |-> <<>>]

NoDraw == [inject |-> FALSE, code |-> <<>>, promote |-> FALSE]

Init ==
    /\ strategy \in {"scenario", "physics"}
    /\ simulate_dtcs \in (IF strategy = "scenario" THEN BOOLEAN ELSE {FALSE})
    /\ running = FALSE
    /\ engine = InitEngine
    /\ vehicle = InitVehicle
    /\ current_scenario = "idle"
    /\ since_change = 1
    /\ clock = 0
    /\ last_scenario_change = 0
    /\ scenario_duration = 30
    /\ phase_start_time = 0
    /\ mainPc = "main"
    /\ simulation_tick = 0
    /\ dtc_codes = <<>>
    /\ state = InitPhysicsState
    /\ phase = "city_1"
    /\ simulation_stats = InitStats
    /\ bus = "none"
    /\ stopPc = "idle"
    /\ simLoop = "off"
    /\ lisLoop = "off"
    /\ waited = 0
    /\ passed = {}
    /\ rx = NoMessage
    /\ tx = <<>>
    /\ simPc = "idle"
    /\ simDraw = NoDraw
    /\ lisPc = "recv"
    /\ lisCount = 0
    /\ obsPc = "idle"
    /\ snapshot = NoSnapshot
    /\ boundary = {}

----------------------------------------------------------------------------
(* Frames the tester puts on the bus *)

\* an 8-byte single-frame request: PCI, mode, PID, padding
Req(pci, mode, pid) == <<pci, mode, pid, 0, 0, 0, 0, 0>>

Msg(id, data) == [arbitration_id |-> id, data |-> data]

\* 0x7DF, 0x7E0 and 0x7E7 are request ids; 0x7DE and 0x7E8 lie just outside
RequestIds == {2014, 2015, 2016, 2023, 2024}

\* one request per branch of the dispatcher, and two frames of 2 bytes
CoreRequests ==
    {Req(2, 1, 12), Req(2, 1, 255), Req(1, 3, 0), Req(1, 4, 0),
     Req(2, 9, 2), Req(2, 9, 4), Req(2, 9, 10), Req(2, 2, 12), Req(2, 34, 0),
     <<1, 4>>, <<2, 1>>}

\* every id with every core request; every mode-01 PID that has a branch,
\* and three that have none, on the functional id
Messages ==
    {Msg(id, data) : id \in RequestIds, data \in CoreRequests}
    \cup {Msg(2015, Req(2, 1, pid)) : pid \in HandledPids \cup {1, 32, 49}}

\* a delivery is a frame and whether bus.send, if the handler calls it,
\* returns (TRUE) or raises (FALSE); a raising send is drawn for the core
\* requests on 0x7E0
Deliveries ==
    {<<m, TRUE>> : m \in Messages}
    \cup {<<Msg(2016, data), FALSE>> : data \in CoreRequests}

----------------------------------------------------------------------------
(* Operations, each run to completion *)

\* start(), called once: the bus is opened, _initialize_demo_dtcs runs
\* (sample = <<>> when random() >= 0.7), then the two threads are started
Start ==
    /\ ~running /\ bus = "none"
    /\ running' = TRUE
    /\ IF strategy = "scenario" /\ simulate_dtcs
       THEN \E sample \in DemoSamples \cup {<<>>} :
              IF sample = <<>>
              THEN UNCHANGED <<vehicle, dtc_codes>>
              ELSE LET r == initialize_demo_dtcs(vehicle, dtc_codes, sample)
                   IN  vehicle' = r.vehicle /\ dtc_codes' = r.dtc_codes
       ELSE UNCHANGED <<vehicle, dtc_codes>>
    /\ UNCHANGED <<strategy, simulate_dtcs, engine, current_scenario, since_change,
                   simulation_tick, state, phase, simulation_stats, rx, tx>>
    /\ UNCHANGED threadVars
    /\ bus' = "open"
    /\ simLoop' = "head"
    /\ lisLoop' = "head"
    /\ UNCHANGED <<stopPc, waited, passed>>
    /\ UNCHANGED timerVars
    /\ UNCHANGED mainPc

\* _update_vehicle_state.  change: the scenario's duration has run out and
\* scenario is what _change_driving_scenario drew; inject: simulate_dtcs and
\* random() < 0.0001.  The stages run in the code's order, each on the
\* result of the one before: the scenario's branch, the correlated
\* parameters, the DTC draw, the runtime counter
update_vehicle_state(e, v, d, old_scenario, change, scenario, n, ph, jam, inject, code, promote) ==
    LET scen == IF change THEN scenario ELSE old_scenario
        counted(s2, s3) ==
            [engine |-> [s2.engine EXCEPT
                           !.runtime_since_start =
                               @ + (IF s2.engine.is_running THEN 1 ELSE 0)],
             vehicle |-> s3.vehicle,
             dtc_codes |-> s3.dtc_codes,
             current_scenario |-> scen]
        injected(s2) ==
            CHOOSE r \in
                {counted(s2, s3) :
                   s3 \in {IF inject
                           THEN add_random_dtc(s2.vehicle, d, code, promote)
                           ELSE [dtc_codes |-> d, vehicle |-> s2.vehicle]}} : TRUE
        correlated(s1) ==
            CHOOSE r \in
                {injected(s2) :
                   s2 \in {update_correlated_parameters(s1.engine, s1.vehicle,
                                                        n, ph)}} : TRUE
    IN  CHOOSE r \in
            {correlated(s1) :
               s1 \in {simulate_scenario(scen, e, v, n, ph, jam)}} : TRUE

\* one iteration of _simulation_loop with the draws of a quiet tick: no
\* scenario change is due and the noise is at its mean
SimulationLoop ==
    /\ running /\ strategy = "scenario"
    /\ simulation_tick < MaxTick
    /\ \E inject \in (IF simulate_dtcs THEN BOOLEAN ELSE {FALSE}),
          code \in DrawnCodes, promote \in BOOLEAN :
         /\ (~inject => (code = possible_codes[1] /\ ~promote))
         /\ LET r == update_vehicle_state(engine, vehicle, dtc_codes,
                         current_scenario, FALSE, current_scenario, 0, 0,
                         FALSE, inject, code, promote)
            IN  /\ engine' = r.engine
                /\ vehicle' = r.vehicle
                /\ dtc_codes' = r.dtc_codes
                /\ current_scenario' = r.current_scenario
                /\ since_change' = 1
    /\ simulation_tick' = simulation_tick + 1
    /\ UNCHANGED <<strategy, simulate_dtcs, running, state, phase, simulation_stats,
                   rx, tx>>
    /\ UNCHANGED threadVars
    /\ UNCHANGED stopVars
    /\ UNCHANGED timerVars
    /\ UNCHANGED mainPc

\* one iteration of _can_listener_loop in which bus.recv returns a frame:
\* requests_received is counted and _process_can_message runs; ok is whether
\* bus.send returns rather than raises
CanListenerLoop ==
    /\ running /\ strategy = "scenario"
    /\ lisPc = "recv"
    /\ simulation_stats.requests_received < MaxRequests
    /\ \E dl \in Deliveries :
         LET message == dl[1]
             ok == dl[2]
             r == process_can_message(message, ok, engine, vehicle, dtc_codes)
         IN  /\ rx' = message
             /\ tx' = r.tx
             /\ vehicle' = r.vehicle
             /\ dtc_codes' = r.dtc_codes
             /\ simulation_stats' =
                  [simulation_stats EXCEPT
                     !.requests_received = @ + 1,
                     !.responses_sent = @ + r.responses_sent]
    /\ lisPc' = "done"
    /\ UNCHANGED <<strategy, simulate_dtcs, running, engine, current_scenario, since_change,
                   simulation_tick, state, phase>>
    /\ UNCHANGED <<simPc, simDraw, lisCount, obsPc, snapshot, boundary>>
    /\ UNCHANGED stopVars
    /\ UNCHANGED timerVars
    /\ UNCHANGED mainPc

\* one iteration of PhysicsSimulator._can_loop in which bus.recv returns a
\* frame
PhysicsCanLoop ==
    /\ running /\ strategy = "physics"
    /\ lisPc = "recv"
    /\ \E dl \in Deliveries :
         /\ rx' = dl[1]
         /\ tx' = physics_process_can_message(dl[1], dl[2], state)
    /\ lisPc' = "done"
    /\ UNCHANGED <<strategy, simulate_dtcs, running, engine, vehicle,
                   current_scenario, since_change, simulation_tick, dtc_codes, state, phase,
                   simulation_stats>>
    /\ UNCHANGED <<simPc, simDraw, lisCount, obsPc, snapshot, boundary>>
    /\ UNCHANGED stopVars
    /\ UNCHANGED timerVars
    /\ UNCHANGED mainPc

\* the listener is back at the head of its loop: the frame it handled and
\* the replies to it are history
ListenerLoopsBack ==
    /\ lisPc = "done"
    /\ lisPc' = "recv"
    /\ rx' = NoMessage
    /\ tx' = <<>>
    /\ UNCHANGED <<strategy, simulate_dtcs, running, engine, vehicle,
                   current_scenario, since_change, simulation_tick, dtc_codes, state, phase,
                   simulation_stats>>
    /\ UNCHANGED <<simPc, simDraw, lisCount, obsPc, snapshot, boundary>>
    /\ UNCHANGED stopVars
    /\ UNCHANGED timerVars
    /\ UNCHANGED mainPc

Next ==
    Start \/ SimulationLoop \/ CanListenerLoop \/ PhysicsCanLoop
    \/ ListenerLoopsBack

Spec == Init /\ [][Next]_vars

----------------------------------------------------------------------------
(* Driving: ticks with every draw, in either strategy *)

\* the requests a tester sends while the vehicle drives: clear codes, and
\* the distance PID 0x31
DriveMessages == {Msg(2015, Req(1, 4, 0)), Msg(2015, Req(2, 1, 49))}

InitDrive == Init /\ simulate_dtcs = FALSE

\* one iteration of _simulation_loop: change is whether the scenario's
\* duration has run out, scenario what _change_driving_scenario then draws
\* (never the current one), n, ph and jam the draws of the scenario.  A
\* duration is at least 30 s, so it has not run out one tick after a change
DriveSimulationLoop ==
    /\ running /\ strategy = "scenario"
    /\ simulation_tick < MaxTick
    /\ \E change \in BOOLEAN, scenario \in Scenarios, n \in Noise, ph \in Phase,
          jam \in BOOLEAN :
         /\ (change => (since_change = 1 /\ scenario # current_scenario))
         /\ (~change => scenario = current_scenario)
         /\ (jam => scenario = "traffic_jam")
         /\ LET r == update_vehicle_state(engine, vehicle, dtc_codes,
                         current_scenario, change, scenario, n, ph, jam,
                         FALSE, possible_codes[1], FALSE)
            IN  /\ engine' = r.engine
                /\ vehicle' = r.vehicle
                /\ dtc_codes' = r.dtc_codes
                /\ current_scenario' = r.current_scenario
                /\ since_change' = (IF change THEN 0 ELSE 1)
    /\ simulation_tick' = simulation_tick + 1
    /\ UNCHANGED <<strategy, simulate_dtcs, running, state, phase, simulation_stats,
                   rx, tx>>
    /\ UNCHANGED threadVars
    /\ UNCHANGED stopVars
    /\ UNCHANGED timerVars
    /\ UNCHANGED mainPc

\* one iteration of _physics_loop; simulation_tick counts its passes.  When
\* the phase has just expired phase_start_time is the current time, so
\* phase_time reads 0; otherwise it lies within the phase's duration
PhysicsLoop ==
    /\ running /\ strategy = "physics"
    /\ simulation_tick < MaxTick
    /\ \E dt \in Dt, expired \in BOOLEAN, phase_time \in PhaseTimes, ph \in Phase,
          jitter \in Phase :
         /\ (expired => phase_time = 0)
         /\ phase_time <= phase_durations(phase)
         /\ LET r == physics_step(state, phase, expired, phase_time, ph, dt,
                                  jitter)
            IN  state' = r.state /\ phase' = r.phase
    /\ simulation_tick' = simulation_tick + 1
    /\ UNCHANGED <<strategy, simulate_dtcs, running, engine, vehicle,
                   current_scenario, since_change, dtc_codes, simulation_stats, rx, tx>>
    /\ UNCHANGED threadVars
    /\ UNCHANGED stopVars
    /\ UNCHANGED timerVars
    /\ UNCHANGED mainPc

\* one iteration of the strategy's listener loop in which bus.recv returns
\* one of DriveMessages and bus.send returns
DriveCanListenerLoop ==
    /\ running
    /\ lisPc = "recv"
    /\ \E message \in DriveMessages :
         /\ rx' = message
         /\ IF strategy = "scenario"
            THEN /\ simulation_stats.requests_received < MaxRequests
                 /\ LET r == process_can_message(message, TRUE, engine, vehicle,
                                                 dtc_codes)
                    IN  /\ tx' = r.tx
                        /\ vehicle' = r.vehicle
                        /\ dtc_codes' = r.dtc_codes
                        /\ simulation_stats' =
                             [simulation_stats EXCEPT
                                !.requests_received = @ + 1,
                                !.responses_sent = @ + r.responses_sent]
            ELSE /\ tx' = physics_process_can_message(message, TRUE, state)
                 /\ UNCHANGED <<vehicle, dtc_codes, simulation_stats>>
    /\ lisPc' = "done"
    /\ UNCHANGED <<strategy, simulate_dtcs, running, engine, current_scenario, since_change,
                   simulation_tick, state, phase>>
    /\ UNCHANGED <<simPc, simDraw, lisCount, obsPc, snapshot, boundary>>
    /\ UNCHANGED stopVars
    /\ UNCHANGED timerVars
    /\ UNCHANGED mainPc

\* fuel levels a long run passes through: the level at construction (75 %)
\* and 0.00002 %, less than one tick's consumption above empty
FuelLevels == {20, 75000000}

\* the scenario strategy with the tank at one of FuelLevels
InitFuel ==
    /\ strategy = "scenario"
    /\ simulate_dtcs = FALSE
    /\ running = FALSE
    /\ engine = InitEngine
    /\ \E f \in FuelLevels : vehicle = [InitVehicle EXCEPT !.fuel_level = f]
    /\ current_scenario = "idle"
    /\ since_change = 1
    /\ clock = 0
    /\ last_scenario_change = 0
    /\ scenario_duration = 30
    /\ phase_start_time = 0
    /\ mainPc = "main"
    /\ simulation_tick = 0
    /\ dtc_codes = <<>>
    /\ state = InitPhysicsState
    /\ phase = "city_1"
    /\ simulation_stats = InitStats
    /\ bus = "none"
    /\ stopPc = "idle"
    /\ simLoop = "off"
    /\ lisLoop = "off"
    /\ waited = 0
    /\ passed = {}
    /\ rx = NoMessage
    /\ tx = <<>>
    /\ simPc = "idle"
    /\ simDraw = NoDraw
    /\ lisPc = "recv"
    /\ lisCount = 0
    /\ obsPc = "idle"
    /\ snapshot = NoSnapshot
    /\ boundary = {}

NextFuel == Start \/ DriveSimulationLoop

SpecFuel == InitFuel /\ [][NextFuel]_vars

NextDrive ==
    Start \/ DriveSimulationLoop \/ PhysicsLoop \/ DriveCanListenerLoop
    \/ ListenerLoopsBack

SpecDrive == InitDrive /\ [][NextDrive]_vars

----------------------------------------------------------------------------
(* Stopping: stop() against the two loops.  Time is counted in whole       *)
(* seconds while stop() waits in a join.  A pass of either loop suspends   *)
(* for at most sleep(0.01) or recv(timeout=0.1), so a live thread comes    *)
(* round to the head of its loop at least once in every second.            *)

\* join(timeout=2) of CANBusSimulator.stop, s
JoinTimeout == 2

\* a loop condition that never ends the loop
BadLoopTest(r) == TRUE

\* while self.running: of _simulation_loop, _physics_loop and _can_loop
simulation_loop_test(r) == r

\* while self.running and self.bus: of _can_listener_loop (a bus that was
\* shut down is still an object, hence true)
can_listener_loop_test(r, b) == r /\ b # "none"

\* the simulation (or physics) thread evaluates its while condition; a pass
\* is begun while the tick counter is within the bound
SimulationTestsFlag ==
    /\ simLoop = "head"
    /\ IF simulation_loop_test(running)
       THEN simulation_tick < MaxTick /\ simLoop' = "body"
       ELSE simLoop' = "exited"
    /\ UNCHANGED <<strategy, simulate_dtcs, running, engine, vehicle,
                   current_scenario, since_change, simulation_tick, dtc_codes,
                   state, phase, simulation_stats, rx, tx>>
    /\ UNCHANGED <<bus, stopPc, lisLoop, waited, passed>>
    /\ UNCHANGED threadVars
    /\ UNCHANGED timerVars
    /\ UNCHANGED mainPc

\* the body of the while: a quiet tick of _simulation_loop, or a pass of
\* _physics_loop 10 ms after the last with the sines at 0, then the sleep
SimulationIterates ==
    /\ simLoop = "body"
    /\ IF strategy = "scenario"
       THEN LET r == update_vehicle_state(engine, vehicle, dtc_codes,
                         current_scenario, FALSE, current_scenario, 0, 0,
                         FALSE, FALSE, possible_codes[1], FALSE)
            IN  /\ engine' = r.engine
                /\ vehicle' = r.vehicle
                /\ current_scenario' = r.current_scenario
                /\ since_change' = 1
                /\ UNCHANGED <<state, phase>>
       ELSE LET r == physics_step(state, phase, FALSE, 0, 0, 1, 0)
            IN  /\ state' = r.state
                /\ phase' = r.phase
                /\ UNCHANGED <<engine, vehicle, current_scenario, since_change>>
    /\ simulation_tick' = simulation_tick + 1
    /\ simLoop' = "head"
    /\ passed' = passed \cup {"simulation"}
    /\ UNCHANGED <<strategy, simulate_dtcs, running, dtc_codes, simulation_stats,
                   rx, tx>>
    /\ UNCHANGED <<bus, stopPc, lisLoop, waited>>
    /\ UNCHANGED threadVars
    /\ UNCHANGED timerVars
    /\ UNCHANGED mainPc

\* the listener thread evaluates its while condition
ListenerTestsFlag ==
    /\ lisLoop = "head"
    /\ lisLoop' = IF (IF strategy = "scenario"
                      THEN can_listener_loop_test(running, bus)
                      ELSE simulation_loop_test(running))
                  THEN "body" ELSE "exited"
    /\ UNCHANGED <<strategy, simulate_dtcs, running, engine, vehicle,
                   current_scenario, since_change, simulation_tick, dtc_codes,
                   state, phase, simulation_stats, rx, tx>>
    /\ UNCHANGED <<bus, stopPc, simLoop, waited, passed>>
    /\ UNCHANGED threadVars
    /\ UNCHANGED timerVars
    /\ UNCHANGED mainPc

\* the body of the listener's while: bus.recv(timeout=0.1) raises on a bus
\* that was shut down (the except clause counts an error), returns None
\* after 0.1 s, or returns a frame, which is handled
ListenerIterates ==
    /\ lisLoop = "body"
    /\ \E message \in DriveMessages \cup {NoMessage} :
         IF bus = "closed"
         THEN /\ message = NoMessage
              /\ simulation_stats' =
                   (IF strategy = "scenario"
                    THEN [simulation_stats EXCEPT !.errors = @ + 1]
                    ELSE simulation_stats)
              /\ UNCHANGED <<vehicle, dtc_codes, rx, tx>>
         ELSE IF message = NoMessage
         THEN UNCHANGED <<vehicle, dtc_codes, simulation_stats, rx, tx>>
         ELSE IF strategy = "scenario"
         THEN /\ simulation_stats.requests_received < MaxRequests
              /\ LET r == process_can_message(message, TRUE, engine, vehicle,
                                              dtc_codes)
                 IN  /\ rx' = message
                     /\ tx' = r.tx
                     /\ vehicle' = r.vehicle
                     /\ dtc_codes' = r.dtc_codes
                     /\ simulation_stats' =
                          [simulation_stats EXCEPT
                             !.requests_received = @ + 1,
                             !.responses_sent = @ + r.responses_sent]
         ELSE /\ rx' = message
              /\ tx' = physics_process_can_message(message, TRUE, state)
              /\ UNCHANGED <<vehicle, dtc_codes, simulation_stats>>
    /\ lisLoop' = "head"
    /\ passed' = passed \cup {"listener"}
    /\ UNCHANGED <<strategy, simulate_dtcs, running, engine, current_scenario,
                   since_change, simulation_tick, state, phase>>
    /\ UNCHANGED <<bus, stopPc, simLoop, waited>>
    /\ UNCHANGED threadVars
    /\ UNCHANGED timerVars
    /\ UNCHANGED mainPc

\* stop(), first statement: self.running = False
Stop ==
    /\ running /\ stopPc = "idle"
    /\ running' = FALSE
    /\ stopPc' = "join_simulation"
    /\ waited' = 0
    /\ passed' = {}
    /\ UNCHANGED <<strategy, simulate_dtcs, engine, vehicle, current_scenario,
                   since_change, simulation_tick, dtc_codes, state, phase,
                   simulation_stats, rx, tx>>
    /\ UNCHANGED <<bus, simLoop, lisLoop>>
    /\ UNCHANGED threadVars
    /\ UNCHANGED timerVars
    /\ UNCHANGED mainPc

\* a second goes by while stop() waits in a join (a join of a thread that
\* has exited does not wait): every thread still alive has come round to
\* the head of its loop within it
SecondPasses ==
    /\ \/ stopPc = "join_simulation" /\ simLoop # "exited"
       \/ stopPc = "join_listener" /\ lisLoop # "exited"
    /\ waited < JoinTimeout
    /\ (simLoop # "exited" => "simulation" \in passed)
    /\ (lisLoop # "exited" => "listener" \in passed)
    /\ waited' = waited + 1
    /\ passed' = {}
    /\ UNCHANGED <<strategy, simulate_dtcs, running, engine, vehicle,
                   current_scenario, since_change, simulation_tick, dtc_codes,
                   state, phase, simulation_stats, rx, tx>>
    /\ UNCHANGED <<bus, stopPc, simLoop, lisLoop>>
    /\ UNCHANGED threadVars
    /\ UNCHANGED timerVars
    /\ UNCHANGED mainPc

\* the join of the simulation thread returns: the thread has exited, or
\* (CANBusSimulator only) the timeout has run out
JoinSimulation ==
    /\ stopPc = "join_simulation"
    /\ \/ simLoop = "exited"
       \/ (strategy = "scenario" /\ waited = JoinTimeout)
    /\ stopPc' = "join_listener"
    /\ waited' = 0
    /\ passed' = {}
    /\ UNCHANGED <<strategy, simulate_dtcs, running, engine, vehicle,
                   current_scenario, since_change, simulation_tick, dtc_codes,
                   state, phase, simulation_stats, rx, tx>>
    /\ UNCHANGED <<bus, simLoop, lisLoop>>
    /\ UNCHANGED threadVars
    /\ UNCHANGED timerVars
    /\ UNCHANGED mainPc

\* the join of the listener thread returns
JoinListener ==
    /\ stopPc = "join_listener"
    /\ \/ lisLoop = "exited"
       \/ (strategy = "scenario" /\ waited = JoinTimeout)
    /\ stopPc' = "shutdown"
    /\ UNCHANGED <<strategy, simulate_dtcs, running, engine, vehicle,
                   current_scenario, since_change, simulation_tick, dtc_codes,
                   state, phase, simulation_stats, rx, tx>>
    /\ UNCHANGED <<bus, simLoop, lisLoop, waited, passed>>
    /\ UNCHANGED threadVars
    /\ UNCHANGED timerVars
    /\ UNCHANGED mainPc

\* self.bus.shutdown(), after which stop() returns
Shutdown ==
    /\ stopPc = "shutdown"
    /\ bus' = "closed"
    /\ stopPc' = "done"
    /\ UNCHANGED <<strategy, simulate_dtcs, running, engine, vehicle,
                   current_scenario, since_change, simulation_tick, dtc_codes,
                   state, phase, simulation_stats, rx, tx>>
    /\ UNCHANGED <<simLoop, lisLoop, waited, passed>>
    /\ UNCHANGED threadVars
    /\ UNCHANGED timerVars
    /\ UNCHANGED mainPc

NextStop ==
    Start \/ SimulationTestsFlag \/ SimulationIterates \/ ListenerTestsFlag
    \/ ListenerIterates \/ Stop \/ SecondPasses \/ JoinSimulation
    \/ JoinListener \/ Shutdown

\* the threads and the caller of stop() are scheduled: a step of theirs
\* that stays possible is taken.  Nothing obliges anyone to call stop().
FairStop ==
    /\ WF_vars(SimulationTestsFlag) /\ WF_vars(SimulationIterates)
    /\ WF_vars(ListenerTestsFlag) /\ WF_vars(ListenerIterates)
    /\ WF_vars(JoinSimulation) /\ WF_vars(JoinListener) /\ WF_vars(Shutdown)

SpecStop == InitDrive /\ [][NextStop]_vars /\ FairStop

----------------------------------------------------------------------------
(* Vocabulary of the properties *)

\* the listener has just handled rx: tx holds its replies
Handled == lisPc = "done"

\* a step in which the listener handles a frame (rx' is the frame)
Handles == lisPc = "recv" /\ lisPc' = "done"

\* rx is a request the dispatcher accepts: a request id and 3 data bytes
Accepted(m) == IsObdRequestId(m.arbitration_id) /\ Len(m.data) >= 3

ModeOf(m) == m.data[2]

PidOf(m) == m.data[3]

\* every frame handed to bus.send went out
AllSent(frames) == \A i \in 1..Len(frames) : frames[i].ok

\* the bytes of a frame from position k on are all 0x00
ZeroFrom(data, k) == \A i \in k..Len(data) : data[i] = 0

----------------------------------------------------------------------------
(* Properties of the dispatcher *)

\* C1: in the main simulator every accepted request for a supported
\* (mode, PID) - mode 01 with a handled PID, mode 03, mode 04 - causes, when
\* the send succeeds, exactly one frame of exactly 8 data bytes: the payload
\* length, then the whole payload, then 0x00 padding.
C1_SupportedRequestOneWholeFrame ==
    (strategy = "scenario" /\ Handled /\ Accepted(rx) /\ AllSent(tx)
     /\ (\/ ModeOf(rx) = 1 /\ PidOf(rx) \in HandledPids
         \/ ModeOf(rx) \in {3, 4}))
    => /\ Len(tx) = 1
       /\ Len(tx[1].data) = 8
       /\ tx[1].data[1] <= 7
       /\ ZeroFrom(tx[1].data, tx[1].data[1] + 2)

\* C2: every response frame, positive or negative, of either dispatcher is
\* sent on 0x7E8 when the request id was 0x7DF and on request id + 8 when it
\* was in 0x7E0..0x7E7, hence on an id in 0x7E8..0x7EF.
C2_ResponseId ==
    Handled =>
      \A i \in 1..Len(tx) :
        /\ tx[i].arbitration_id =
             (IF rx.arbitration_id = 2015 THEN 2024 ELSE rx.arbitration_id + 8)
        /\ tx[i].arbitration_id \in 2024..2031

\* C3: a received frame whose id is neither 0x7DF nor in 0x7E0..0x7E7 is
\* ignored by either simulator: nothing is transmitted, and engine state,
\* vehicle state, DTC list and physics state stay as they were, whatever the
\* data bytes are.
C3_ForeignFrameIgnored ==
    [][(Handles /\ ~IsObdRequestId(rx'.arbitration_id))
       => (/\ tx' = <<>>
           /\ engine' = engine
           /\ vehicle' = vehicle
           /\ dtc_codes' = dtc_codes
           /\ state' = state)]_vars

\* C3 witness: the main simulator, holding DTCs with the MIL on, has just
\* handled a mode-04 frame on id 0x7E8 and still holds them.
C3_Witness ==
    /\ strategy = "scenario" /\ Handled
    /\ rx = Msg(2024, Req(1, 4, 0))
    /\ Len(dtc_codes) = 2 /\ vehicle.mil_status

\* the requests C4 is about
Unsupported(m) ==
    \/ ModeOf(m) \notin {1, 3, 4, 9}
    \/ ModeOf(m) = 1 /\ PidOf(m) \notin HandledPids
    \/ ModeOf(m) = 9 /\ PidOf(m) \notin {2, 4}

\* C4: in the main simulator every accepted request with an unsupported mode,
\* an unsupported mode-01 PID or an unknown mode-09 sub-function makes the
\* dispatcher transmit exactly one frame; its data begins with 0x7F and has
\* the request's mode in byte 1.
C4_NegativeResponse ==
    (strategy = "scenario" /\ Handled /\ Accepted(rx) /\ Unsupported(rx))
    => /\ Len(tx) = 1
       /\ tx[1].data[1] = 127
       /\ tx[1].data[2] = ModeOf(rx)

\* C4 witness: an unknown mode-09 sub-function on 0x7E7 has been answered
\* with the negative response for mode 09.
C4_Witness ==
    /\ strategy = "scenario" /\ Handled
    /\ rx = Msg(2023, Req(2, 9, 10))
    /\ Len(tx) = 1 /\ tx[1].ok
    /\ SubSeq(tx[1].data, 1, 2) = <<127, 9>>

\* C5: for every accepted mode-01 request whose PID has no handler the
\* transmitted frame is exactly [0x03, 0x7F, 0x01, 0x12, 0, 0, 0, 0].
C5_UnsupportedPidFrame ==
    (strategy = "scenario" /\ Handled /\ Accepted(rx)
     /\ ModeOf(rx) = 1 /\ PidOf(rx) \notin HandledPids)
    => /\ Len(tx) = 1
       /\ tx[1].data = <<3, 127, 1, 18, 0, 0, 0, 0>>

\* C6: for every accepted request whose mode is not 01, 03, 04 or 09 the
\* negative response carries [0x7F, mode, 0x11].
C6_UnsupportedModeCode ==
    (strategy = "scenario" /\ Handled /\ Accepted(rx)
     /\ ModeOf(rx) \notin {1, 3, 4, 9})
    => /\ Len(tx) = 1
       /\ \E k \in 1..2 : SubSeq(tx[1].data, k, k + 2) = <<127, ModeOf(rx), 17>>

\* C7: a mode-09 VIN request [0x02, 0x09, 0x02, ...] on an accepted id is
\* answered by a positive response that begins 0x49, 0x02, 0x01 and goes on
\* with the first bytes of the VIN; it is never answered negatively.
C7_VinAnswered ==
    (strategy = "scenario" /\ Handled /\ Accepted(rx)
     /\ SubSeq(rx.data, 1, 3) = <<2, 9, 2>>)
    => /\ Len(tx) = 1
       /\ SubSeq(tx[1].data, 2, 4) = <<73, 2, 1>>
       /\ SubSeq(tx[1].data, 5, 8) = SubSeq(VinBytes, 1, 4)
       /\ \A i \in 1..Len(tx) : 127 \notin {tx[i].data[1], tx[i].data[2]}

\* C8: handling an accepted mode-04 request, from any state, leaves the DTC
\* list empty, mil_status false and dtc_count 0 and transmits the positive
\* response whose first payload byte is 0x44; handled from a state a clear has
\* left, it changes nothing (twice is the same as once).
C8_ClearCodes ==
    [][(strategy = "scenario" /\ Handles /\ Accepted(rx') /\ ModeOf(rx') = 4)
       => (/\ dtc_codes' = <<>>
           /\ vehicle'.mil_status = FALSE
           /\ vehicle'.dtc_count = 0
           /\ Len(tx') = 1
           /\ SubSeq(tx'[1].data, 1, 2) = <<1, 68>>
           /\ (dtc_codes = <<>> /\ ~vehicle.mil_status /\ vehicle.dtc_count = 0)
              => (vehicle' = vehicle /\ dtc_codes' = dtc_codes))]_vars

\* C8 witness: the second request of a run, a mode-04 request, has been
\* handled in a simulator that was started with demo DTCs or without any.
C8_Witness ==
    /\ strategy = "scenario" /\ Handled
    /\ Accepted(rx) /\ ModeOf(rx) = 4
    /\ simulation_stats.requests_received = 2
    /\ simulation_stats.responses_sent = 2
    /\ dtc_codes = <<>> /\ ~vehicle.mil_status
    /\ SubSeq(tx[1].data, 1, 2) = <<1, 68>>

\* the first n confirmed DTCs of a list, in list order
FirstConfirmed(d, n) == Take(SelectSeq(d, IsConfirmed), n)

\* C9: for every DTC list the mode-03 response payload is [0x43, N, ...] with
\* N the number of confirmed DTCs, followed by the 2-byte encodings of the
\* first min(N, 3) confirmed DTCs in list order (the frame shows the first 8
\* bytes of length + payload).
C9_ReadDtcs ==
    [][(strategy = "scenario" /\ Handles /\ Accepted(rx') /\ ModeOf(rx') = 3)
       => LET N       == Len(SelectSeq(dtc_codes, IsConfirmed))
              payload == <<67, N>> \o EncodeAll(FirstConfirmed(dtc_codes, 3))
          IN  /\ Len(tx') = 1
              /\ tx'[1].data = Padded8(Take(<<Len(payload)>> \o payload, 8))]_vars

----------------------------------------------------------------------------
(* The threads, statement by statement.  CANBusSimulator takes no lock:    *)
(* the simulation thread, the listener thread and a caller of              *)
(* get_current_state run under the interpreter lock only, which may pass   *)
(* from one thread to another between any two statements.  The steps below *)
(* are those of the statements that touch dtc_codes, mil_status and        *)
(* dtc_count.                                                              *)

\* what the program holds about DTCs
DtcView ==
    [mil_status |-> vehicle.mil_status, dtc_count |-> vehicle.dtc_count,
     dtc_codes |-> dtc_codes]

InitThreads == Init /\ strategy = "scenario" /\ simulate_dtcs

\* _update_vehicle_state of a quiet tick down to the draw random() < 0.0001
\* that decides whether _add_random_dtc is called
SimUpdatesTelemetry ==
    /\ running /\ strategy = "scenario"
    /\ simPc = "idle"
    /\ simulation_tick < MaxTick
    /\ \E inject \in BOOLEAN, code \in DrawnCodes, promote \in BOOLEAN :
         /\ (~inject => (code = possible_codes[1] /\ ~promote))
         /\ simDraw' = [inject |-> inject, code |-> code, promote |-> promote]
         /\ simPc' = IF inject THEN "add" ELSE "return"
    /\ LET r == update_vehicle_state(engine, vehicle, dtc_codes,
                    current_scenario, FALSE, current_scenario, 0, 0, FALSE,
                    FALSE, possible_codes[1], FALSE)
       IN  /\ engine' = r.engine
           /\ vehicle' = r.vehicle
           /\ current_scenario' = r.current_scenario
           /\ since_change' = 1
    /\ boundary' = boundary \cup {DtcView}
    /\ UNCHANGED <<strategy, simulate_dtcs, running, simulation_tick,
                   dtc_codes, state, phase, simulation_stats, rx, tx>>
    /\ UNCHANGED <<lisPc, lisCount, obsPc, snapshot>>
    /\ UNCHANGED stopVars
    /\ UNCHANGED timerVars
    /\ UNCHANGED mainPc

\* _add_random_dtc: the two tests and self.dtc_codes.append(new_dtc)
SimAppendsDtc ==
    /\ simPc = "add"
    /\ IF may_add_dtc(dtc_codes, simDraw.code)
       THEN /\ dtc_codes' = append_new_dtc(dtc_codes, simDraw.code)
            /\ simPc' = IF simDraw.promote THEN "confirm" ELSE "return"
       ELSE /\ UNCHANGED dtc_codes
            /\ simPc' = "return"
    /\ UNCHANGED <<strategy, simulate_dtcs, running, engine, vehicle,
                   current_scenario, since_change, simulation_tick, state, phase, simulation_stats,
                   rx, tx>>
    /\ UNCHANGED <<simDraw, lisPc, lisCount, obsPc, snapshot, boundary>>
    /\ UNCHANGED stopVars
    /\ UNCHANGED timerVars
    /\ UNCHANGED mainPc

\* _add_random_dtc: new_dtc.status = "confirmed".  The assignment goes to
\* the object; the list shows it only while it still holds the object
SimConfirmsDtc ==
    /\ simPc = "confirm"
    /\ dtc_codes' = (IF holds_new_dtc(dtc_codes, simDraw.code)
                     THEN confirm_new_dtc(dtc_codes) ELSE dtc_codes)
    /\ simPc' = "mil"
    /\ UNCHANGED <<strategy, simulate_dtcs, running, engine, vehicle,
                   current_scenario, since_change, simulation_tick, state, phase, simulation_stats,
                   rx, tx>>
    /\ UNCHANGED <<simDraw, lisPc, lisCount, obsPc, snapshot, boundary>>
    /\ UNCHANGED stopVars
    /\ UNCHANGED timerVars
    /\ UNCHANGED mainPc

\* _add_random_dtc: self.vehicle.mil_status = True
SimSetsMil ==
    /\ simPc = "mil"
    /\ vehicle' = [vehicle EXCEPT !.mil_status = TRUE]
    /\ simPc' = "return"
    /\ UNCHANGED <<strategy, simulate_dtcs, running, engine, current_scenario, since_change,
                   simulation_tick, dtc_codes, state, phase, simulation_stats, rx, tx>>
    /\ UNCHANGED <<simDraw, lisPc, lisCount, obsPc, snapshot, boundary>>
    /\ UNCHANGED stopVars
    /\ UNCHANGED timerVars
    /\ UNCHANGED mainPc

\* _update_vehicle_state returns; _simulation_loop counts the tick
SimEndsTick ==
    /\ simPc = "return"
    /\ simPc' = "idle"
    /\ simDraw' = NoDraw
    /\ simulation_tick' = simulation_tick + 1
    /\ UNCHANGED <<strategy, simulate_dtcs, running, engine, vehicle,
                   current_scenario, since_change, dtc_codes, state, phase, simulation_stats,
                   rx, tx>>
    /\ UNCHANGED <<lisPc, lisCount, obsPc, snapshot, boundary>>
    /\ UNCHANGED stopVars
    /\ UNCHANGED timerVars
    /\ UNCHANGED mainPc

\* the ids a mode-03 request comes in on
ReadDtcIds == {2015, 2016}

\* bus.recv returns a mode-03 request; _handle_diagnostic_codes_request
\* computes its local dtc_count
ListenerCountsDtcs ==
    /\ running /\ strategy = "scenario"
    /\ lisPc = "recv"
    /\ simulation_stats.requests_received < MaxRequests
    /\ \E id \in ReadDtcIds : rx' = Msg(id, Req(1, 3, 0))
    /\ tx' = <<>>
    /\ lisCount' = confirmed_count(dtc_codes)
    /\ simulation_stats' = [simulation_stats EXCEPT !.requests_received = @ + 1]
    /\ lisPc' = "counted"
    /\ UNCHANGED <<strategy, simulate_dtcs, running, engine, vehicle,
                   current_scenario, since_change, simulation_tick, dtc_codes, state, phase>>
    /\ UNCHANGED <<simPc, simDraw, obsPc, snapshot, boundary>>
    /\ UNCHANGED stopVars
    /\ UNCHANGED timerVars
    /\ UNCHANGED mainPc

\* _handle_diagnostic_codes_request: the loop over self.dtc_codes[:3] and
\* _send_obd_response
ListenerSendsDtcs ==
    /\ lisPc = "counted"
    /\ LET r == send_obd_response(rx.arbitration_id,
                    <<67, lisCount>> \o encoded_dtcs(dtc_codes), TRUE,
                    vehicle, dtc_codes)
       IN  /\ tx' = r.tx
           /\ simulation_stats' =
                [simulation_stats EXCEPT !.responses_sent = @ + r.responses_sent]
    /\ lisPc' = "done"
    /\ UNCHANGED <<strategy, simulate_dtcs, running, engine, vehicle,
                   current_scenario, since_change, simulation_tick, dtc_codes, state, phase, rx>>
    /\ UNCHANGED <<simPc, simDraw, lisCount, obsPc, snapshot, boundary>>
    /\ UNCHANGED stopVars
    /\ UNCHANGED timerVars
    /\ UNCHANGED mainPc

\* get_current_state: the 'vehicle' entry of the dict is built
ObserverReadsVehicle ==
    /\ running /\ strategy = "scenario"
    /\ obsPc = "idle"
    /\ snapshot' = [mil_status |-> vehicle.mil_status,
                    dtc_count |-> vehicle.dtc_count, dtc_codes |-> <<>>]
    /\ obsPc' = "vehicle"
    /\ UNCHANGED <<strategy, simulate_dtcs, running, engine, vehicle,
                   current_scenario, since_change, simulation_tick, dtc_codes, state, phase,
                   simulation_stats, rx, tx>>
    /\ UNCHANGED <<simPc, simDraw, lisPc, lisCount, boundary>>
    /\ UNCHANGED stopVars
    /\ UNCHANGED timerVars
    /\ UNCHANGED mainPc

\* get_current_state: the 'dtc_codes' entry is built and the dict returned
ObserverReadsDtcs ==
    /\ obsPc = "vehicle"
    /\ snapshot' = [snapshot EXCEPT !.dtc_codes = dtc_codes]
    /\ obsPc' = "done"
    /\ UNCHANGED <<strategy, simulate_dtcs, running, engine, vehicle,
                   current_scenario, since_change, simulation_tick, dtc_codes, state, phase,
                   simulation_stats, rx, tx>>
    /\ UNCHANGED <<simPc, simDraw, lisPc, lisCount, boundary>>
    /\ UNCHANGED stopVars
    /\ UNCHANGED timerVars
    /\ UNCHANGED mainPc

\* the caller is done with the dict
ObserverDropsSnapshot ==
    /\ obsPc = "done"
    /\ obsPc' = "idle"
    /\ snapshot' = NoSnapshot
    /\ UNCHANGED <<strategy, simulate_dtcs, running, engine, vehicle,
                   current_scenario, since_change, simulation_tick, dtc_codes, state, phase,
                   simulation_stats, rx, tx>>
    /\ UNCHANGED <<simPc, simDraw, lisPc, lisCount, boundary>>
    /\ UNCHANGED stopVars
    /\ UNCHANGED timerVars
    /\ UNCHANGED mainPc

NextThreads ==
    \/ Start
    \/ SimUpdatesTelemetry \/ SimAppendsDtc \/ SimConfirmsDtc \/ SimSetsMil
    \/ SimEndsTick
    \/ ListenerCountsDtcs \/ ListenerSendsDtcs \/ ListenerLoopsBack
    \/ ObserverReadsVehicle \/ ObserverReadsDtcs \/ ObserverDropsSnapshot

SpecThreads == InitThreads /\ [][NextThreads]_vars

\* the DTC views that held outside a tick: those the ticks so far began
\* from and, the simulation thread being between ticks, the present one
TickBoundaries == boundary \cup {DtcView}

\* C10: under every interleaving of the listener thread with the simulation
\* thread, a mode-03 response is the one _handle_diagnostic_codes_request
\* computes from the DTC list of one single state that held outside a tick,
\* and a dict that get_current_state returns pairs mil_status, dtc_count and
\* the DTC list of one such state.  Stated in the states where no tick is in
\* progress, when the state after the tick is known.
C10_ReadsSeeOneState ==
    simPc = "idle" =>
      /\ (lisPc = "done" /\ Accepted(rx) /\ ModeOf(rx) = 3)
         => \E b \in TickBoundaries :
              tx = handle_diagnostic_codes_request(rx, TRUE, vehicle,
                                                   b.dtc_codes).tx
      /\ obsPc = "done" => snapshot \in TickBoundaries

----------------------------------------------------------------------------
(* Properties of the DTC bookkeeping and of the counters *)

\* C11: in every state after startup (demo DTCs, ticks with DTC injection,
\* mode-04 clears, each run to completion) vehicle.dtc_count equals the
\* number of DTCs in the list whose status is confirmed.
C11_DtcCountIsConfirmedCount ==
    (strategy = "scenario" /\ running)
    => vehicle.dtc_count = confirmed_count(dtc_codes)

\* C12: in every state after startup (demo DTCs, ticks with DTC injection,
\* mode-04 clears, each run to completion) mil_status is true if and only if
\* the list holds at least one confirmed DTC.
C12_MilIffConfirmed ==
    (strategy = "scenario" /\ running)
    => (vehicle.mil_status <=> confirmed_count(dtc_codes) > 0)

\* the frames of a handler that bus.send accepted
SentOk(frames) == {i \in 1..Len(frames) : frames[i].ok}

\* C20: responses_sent counts the frames the dispatcher has successfully
\* transmitted, negative responses as well as positive ones: every handled
\* frame adds to it the number of its replies that went out.
C20_ResponsesSentCountsFrames ==
    [][(strategy = "scenario" /\ Handles)
       => simulation_stats'.responses_sent
            = simulation_stats.responses_sent + Cardinality(SentOk(tx'))]_vars

----------------------------------------------------------------------------
(* Driving state after a tick *)

\* C13: after every simulation tick, in any scenario and across scenario
\* changes, and after every physics tick, the gear is 0 if and only if the
\* speed is below 0.1 km/h.
C13_GearZeroIffStandstill ==
    (running /\ simulation_tick > 0)
    => IF strategy = "scenario"
       THEN (vehicle.gear = 0 <=> vehicle.speed < 1)
       ELSE (state.gear = 0 <=> state.speed * 18 < 500)

\* C14: after every tick of the scenario strategy, in every scenario and at
\* every noise level, rpm is at least 800 when is_running is true, and rpm
\* is 0 exactly when is_running is false.
C14_RpmFloor ==
    (strategy = "scenario" /\ running /\ simulation_tick > 0)
    => /\ (engine.is_running => engine.rpm >= 800)
       /\ (engine.rpm = 0 <=> ~engine.is_running)

----------------------------------------------------------------------------
(* Odometer and fuel *)

\* C15: the odometer never decreases: over every tick of either strategy, in
\* every scenario or phase and at every speed the tick produces, the
\* odometer after the tick is at least the odometer before it, and no
\* request handler changes it.
C15_OdometerNeverDecreases ==
    [][/\ vehicle'.odometer >= vehicle.odometer
       /\ state'.odometer >= state.odometer
       /\ Handles => (/\ vehicle'.odometer = vehicle.odometer
                      /\ state'.odometer = state.odometer)]_vars

\* C15 witness: after two ticks of the scenario strategy the vehicle stands
\* with distance on its odometer, and a clear-codes request has been handled.
C15_Witness ==
    /\ strategy = "scenario" /\ simulation_tick = 2
    /\ vehicle.speed = 0 /\ vehicle.odometer > 0
    /\ Handled /\ Accepted(rx) /\ ModeOf(rx) = 4 /\ Len(tx) = 1

\* C16: while is_running is true, fuel_level never increases from one tick
\* to the next and never falls below 0, across any sequence of ticks and
\* scenario changes.
C16_FuelNeverIncreases ==
    [][(engine.is_running /\ simulation_tick' = simulation_tick + 1)
       => (/\ vehicle'.fuel_level <= vehicle.fuel_level
           /\ vehicle'.fuel_level >= 0)]_vars

\* C16 witness: the second tick, an idle tick burning 0.000015 %, found less
\* than that in the tank and left it empty.
C16_Witness ==
    /\ simulation_tick = 2
    /\ engine.is_running /\ engine.engine_load = 15
    /\ vehicle.fuel_level = 0

----------------------------------------------------------------------------
(* Physics strategy: speed and rpm *)

\* C17: in the physics strategy the speed is at least 0 after every tick, in
\* every phase and for every throttle and brake value the controller
\* produces.
C17_SpeedNotNegative ==
    (strategy = "physics" /\ simulation_tick > 0) => state.speed >= 0

\* C17 witness: the second tick braked a moving vehicle, and the
\* deceleration over the tick's dt exceeded the speed it had.
C17_Witness ==
    /\ strategy = "physics" /\ simulation_tick = 2
    /\ state.brake > 0 /\ state.acceleration < 0
    /\ state.odometer > 0
    /\ state.speed = 0

\* C18: in the physics strategy rpm lies in [800, 6500] after every tick,
\* standstill ticks included, after the lag and the jitter are applied.
C18_RpmInRange ==
    (strategy = "physics" /\ simulation_tick > 0)
    => (state.rpm >= 80000 /\ state.rpm <= 650000)

----------------------------------------------------------------------------
(* Stopping *)

----------------------------------------------------------------------------
(* Faulty transmits and malformed frames *)

\* the frames of a reply whose bus.send raised
SentFailed(frames) == {i \in 1..Len(frames) : ~frames[i].ok}

\* C21: every failed transmit (bus.send raising while a positive or a
\* negative response is sent) increments the errors counter by exactly one.
C21_FailedSendCountsError ==
    [][(strategy = "scenario" /\ Handles)
       => simulation_stats'.errors
            = simulation_stats.errors + Cardinality(SentFailed(tx'))]_vars

\* C22: a frame on an accepted request id with fewer than 3 data bytes is
\* dropped by either simulator: nothing is transmitted, and engine state,
\* vehicle state, DTC list, physics state and the counters of responses and
\* errors stay as they were, even when its mode byte is 0x04.
C22_ShortFrameDropped ==
    [][(Handles /\ IsObdRequestId(rx'.arbitration_id) /\ Len(rx'.data) < 3)
       => (/\ tx' = <<>>
           /\ engine' = engine
           /\ vehicle' = vehicle
           /\ dtc_codes' = dtc_codes
           /\ state' = state
           /\ simulation_stats'.responses_sent = simulation_stats.responses_sent
           /\ simulation_stats'.errors = simulation_stats.errors)]_vars

\* C22 witness: the main simulator, holding DTCs with the MIL on, has just
\* handled the 2-byte frame [0x01, 0x04] on 0x7DF, sent nothing and still
\* holds them.
C22_Witness ==
    /\ strategy = "scenario" /\ Handled
    /\ rx = Msg(2015, <<1, 4>>)
    /\ tx = <<>>
    /\ Len(dtc_codes) = 2 /\ vehicle.mil_status

\* frames on a request id whose first byte is no single-frame PCI for their
\* content: first frame (0x10), consecutive frame (0x21), flow control (0x30),
\* length nibble 0, length nibble 1 before a mode and a PID; and two
\* well-formed requests
PciRequests ==
    {Req(16, 1, 12), Req(16, 4, 0), Req(33, 1, 12), Req(48, 0, 0),
     Req(0, 1, 12), Req(1, 1, 12), Req(0, 4, 0), Req(2, 1, 12), Req(1, 4, 0)}

PciMessages == {Msg(id, data) : id \in {2015, 2016}, data \in PciRequests}

\* one iteration of the strategy's listener loop in which bus.recv returns
\* one of PciMessages and bus.send returns
PciCanListenerLoop ==
    /\ running
    /\ lisPc = "recv"
    /\ \E message \in PciMessages :
         /\ rx' = message
         /\ IF strategy = "scenario"
            THEN /\ simulation_stats.requests_received < MaxRequests
                 /\ LET r == process_can_message(message, TRUE, engine, vehicle,
                                                 dtc_codes)
                    IN  /\ tx' = r.tx
                        /\ vehicle' = r.vehicle
                        /\ dtc_codes' = r.dtc_codes
                        /\ simulation_stats' =
                             [simulation_stats EXCEPT
                                !.requests_received = @ + 1,
                                !.responses_sent = @ + r.responses_sent]
            ELSE /\ tx' = physics_process_can_message(message, TRUE, state)
                 /\ UNCHANGED <<vehicle, dtc_codes, simulation_stats>>
    /\ lisPc' = "done"
    /\ UNCHANGED <<strategy, simulate_dtcs, running, engine, current_scenario,
                   since_change, simulation_tick, state, phase>>
    /\ UNCHANGED <<simPc, simDraw, lisCount, obsPc, snapshot, boundary>>
    /\ UNCHANGED stopVars
    /\ UNCHANGED timerVars
    /\ UNCHANGED mainPc

NextPci == Start \/ PciCanListenerLoop \/ ListenerLoopsBack

SpecPci == Init /\ [][NextPci]_vars

\* the first byte of m is no single-frame PCI for its content: the upper
\* nibble is not 0, or the length nibble is 0 or does not cover the mode and
\* the PID of a mode-01 or mode-09 request
MalformedPci(m) ==
    LET pci == m.data[1]
    IN  \/ pci \div 16 # 0
        \/ pci % 16 = 0
        \/ ModeOf(m) \in {1, 9} /\ pci % 16 < 2

\* C23: a frame on an accepted request id whose first byte is not a valid
\* single-frame PCI for its content (upper nibble non-zero, or length nibble
\* 0 or too small to cover mode and PID) is dropped by either simulator:
\* nothing is transmitted and engine state, vehicle state, DTC list and
\* physics state stay as they were.
C23_MalformedPciDropped ==
    [][(Handles /\ Accepted(rx') /\ MalformedPci(rx'))
       => (/\ tx' = <<>>
           /\ engine' = engine
           /\ vehicle' = vehicle
           /\ dtc_codes' = dtc_codes
           /\ state' = state)]_vars

----------------------------------------------------------------------------
(* Supported-PID masks *)

\* the window bases of mode 01
WindowBases == {0, 32, 64}

\* bit 31 - b of the big-endian 32-bit mask held in four bytes
MaskBit(bytes, b) == (bytes[b \div 8 + 1] \div Pow2(7 - (b % 8))) % 2

\* C24: for each window base in {0x00, 0x20, 0x40} a mode-01 request for PID
\* base is answered by one positive response whose 4 data bytes are the
\* big-endian mask with bit 31-(p-base-1) set to 1 for every supported PID p
\* of base+1..base+32 and to 0 for every other PID of the window.
C24_WindowMaskAnswered ==
    (strategy = "scenario" /\ Handled /\ Accepted(rx) /\ ModeOf(rx) = 1
     /\ PidOf(rx) \in WindowBases)
    => /\ Len(tx) = 1
       /\ SubSeq(tx[1].data, 1, 3) = <<6, 65, PidOf(rx)>>
       /\ \A p \in (PidOf(rx) + 1)..(PidOf(rx) + 32) :
            MaskBit(SubSeq(tx[1].data, 4, 7), p - PidOf(rx) - 1)
              = (IF p \in supported_pids(PidOf(rx)) THEN 1 ELSE 0)

\* C25: in the mask returned for a window, bit 0 (the bit of PID base+32) is
\* set if and only if the next window has a supported PID; the mask returned
\* for PID 0x00 has it set.
C25_NextWindowBit ==
    (strategy = "scenario" /\ Handled /\ Accepted(rx) /\ ModeOf(rx) = 1
     /\ PidOf(rx) \in WindowBases
     /\ Len(tx) = 1 /\ SubSeq(tx[1].data, 1, 3) = <<6, 65, PidOf(rx)>>)
    => (MaskBit(SubSeq(tx[1].data, 4, 7), 31) = 1
        <=> supported_pids(PidOf(rx) + 32) # {})

----------------------------------------------------------------------------
(* The DTC codec on its own: the list holds one confirmed DTC, whose code *)
(* is the argument of _encode_dtc, and a mode-03 request reads it         *)

Letters == <<"P", "C", "B", "U">>

\* the letter c followed by d as 4 hex digits
HexCode(c, d) ==
    Code(c, HexDigits[((d \div 4096) % 16) + 1],
         HexDigits[((d \div 256) % 16) + 1], HexDigits[((d \div 16) % 16) + 1],
         HexDigits[(d % 16) + 1])

\* every code of a letter and a number of 12 bits
NumberedCodes == {HexCode(Letters[i], d) : i \in 1..4, d \in 0..4095}

\* codes that are no letter of P, C, B, U and four hex digits with the first
\* in 0..3: too short, too long, empty, another letter, a first digit above
\* 3, and characters that are no hex digits
MalformedCodes ==
    {<<"P", "0", "4", "2">>, <<"P", "0", "4", "2", "0", "0">>, <<>>,
     Code("X", "0", "1", "2", "3"), Code("P", "4", "1", "2", "3"),
     Code("P", "9", "1", "2", "3"), Code("U", "F", "F", "F", "F"),
     Code("P", "0", "1", "G", "3"), Code("P", "0", "_", "_", "1"),
     Code("P", "-", "0", "0", "1"), Code("P", " ", "1", "2", "3"),
     Code("P", "0", "x", "1", "2"), Code("P", "1", "_", "0", "0")}

InitCodec ==
    /\ strategy = "scenario"
    /\ simulate_dtcs = FALSE
    /\ running = FALSE
    /\ engine = InitEngine
    /\ vehicle = [InitVehicle EXCEPT !.mil_status = TRUE, !.dtc_count = 1]
    /\ current_scenario = "idle"
    /\ since_change = 1
    /\ clock = 0
    /\ last_scenario_change = 0
    /\ scenario_duration = 30
    /\ phase_start_time = 0
    /\ mainPc = "main"
    /\ simulation_tick = 0
    /\ \E code \in NumberedCodes \cup MalformedCodes :
         dtc_codes = <<Dtc(code, "confirmed")>>
    /\ state = InitPhysicsState
    /\ phase = "city_1"
    /\ simulation_stats = InitStats
    /\ bus = "none"
    /\ stopPc = "idle"
    /\ simLoop = "off"
    /\ lisLoop = "off"
    /\ waited = 0
    /\ passed = {}
    /\ rx = NoMessage
    /\ tx = <<>>
    /\ simPc = "idle"
    /\ simDraw = NoDraw
    /\ lisPc = "recv"
    /\ lisCount = 0
    /\ obsPc = "idle"
    /\ snapshot = NoSnapshot
    /\ boundary = {}

\* one iteration of _can_listener_loop in which bus.recv returns a mode-03
\* request and bus.send returns
CodecCanListenerLoop ==
    /\ running /\ strategy = "scenario"
    /\ lisPc = "recv"
    /\ simulation_stats.requests_received < MaxRequests
    /\ \E message \in {Msg(2015, Req(1, 3, 0))} :
         LET r == process_can_message(message, TRUE, engine, vehicle, dtc_codes)
         IN  /\ rx' = message
             /\ tx' = r.tx
             /\ vehicle' = r.vehicle
             /\ dtc_codes' = r.dtc_codes
             /\ simulation_stats' =
                  [simulation_stats EXCEPT
                     !.requests_received = @ + 1,
                     !.responses_sent = @ + r.responses_sent]
    /\ lisPc' = "done"
    /\ UNCHANGED <<strategy, simulate_dtcs, running, engine, current_scenario,
                   since_change, simulation_tick, state, phase>>
    /\ UNCHANGED <<simPc, simDraw, lisCount, obsPc, snapshot, boundary>>
    /\ UNCHANGED stopVars
    /\ UNCHANGED timerVars
    /\ UNCHANGED mainPc

NextCodec == Start \/ CodecCanListenerLoop \/ ListenerLoopsBack

SpecCodec == InitCodec /\ [][NextCodec]_vars

\* the argument _encode_dtc was applied to, and the two bytes it returned:
\* they follow the length, 0x43 and the count in the reply
EncodedCode == dtc_codes[1].code

EncodedBytes == SubSeq(tx[1].data, 4, 5)

\* the code is no letter of P, C, B, U followed by a digit of 0..3 and three
\* hex digits
Malformed(code) ==
    \/ Len(code) # 5
    \/ /\ Len(code) = 5
       /\ \/ code[1] \notin {"P", "C", "B", "U"}
          \/ code[2] \notin {"0", "1", "2", "3"}
          \/ \E i \in 2..5 : ~IsHexDigit(code[i])

\* C26: _encode_dtc returns [0x00, 0x00] for every malformed code: a length
\* other than 5, a first character that is not P, C, B or U, a second
\* character outside 0..3, or a character among the last four that is no
\* hex digit.
C26_MalformedEncodesZero ==
    (Handled /\ Len(tx) = 1 /\ Malformed(EncodedCode))
    => EncodedBytes = <<0, 0>>

\* the inverse mapping: two high bits the letter, the next two the second
\* character, the remaining 12 bits three hex digits
decode_dtc(bytes) ==
    Code(Letters[(bytes[1] \div 64) + 1], HexDigits[((bytes[1] \div 16) % 4) + 1],
         HexDigits[(bytes[1] % 16) + 1], HexDigits[(bytes[2] \div 16) + 1],
         HexDigits[(bytes[2] % 16) + 1])

\* C27: for every letter c of P, C, B, U and every d in 0..4095 the two bytes
\* _encode_dtc returns for c followed by d as 4 hex digits decode to that
\* code again; distinct codes therefore have distinct encodings.
C27_DtcRoundTrip ==
    (Handled /\ Len(tx) = 1 /\ EncodedCode \in NumberedCodes)
    => /\ decode_dtc(EncodedBytes) = EncodedCode
       /\ \A i \in 1..4 :
            LET other == <<Letters[i]>> \o Tail(EncodedCode)
            IN  other # EncodedCode => encode_dtc(other) # EncodedBytes

\* C27 witness: U0FFF, the last code of the range, has been encoded as CF FF.
C27_Witness ==
    /\ Handled /\ Len(tx) = 1
    /\ EncodedCode = Code("U", "0", "F", "F", "F")
    /\ EncodedBytes = <<207, 255>>
    /\ decode_dtc(EncodedBytes) = EncodedCode

----------------------------------------------------------------------------
(* Encoders at the ends of their ranges; the physics dispatcher's replies *)

\* the reply is one frame: the payload's length, the payload, padding
Answered(payload) ==
    /\ Len(tx) = 1
    /\ tx[1].data = Padded8(<<Len(payload)>> \o payload)

\* C28: a mode-01 request for speed, rpm or (physics simulator) distance is
\* answered by a positive response whatever the value of the quantity is,
\* and the data bytes encode the value clamped to the encodable range
\* (0..255 in one byte, 0..65535 in two): it never wraps modulo 256 or
\* 65536 and the request is never left unanswered.
C28_EncodersClamp ==
    (Handled /\ Accepted(rx) /\ ModeOf(rx) = 1 /\ rx.data[1] = 2)
    => /\ (strategy = "scenario" /\ PidOf(rx) = 13)
            => Answered(<<65, 13, Clamp(0, 255, Trunc(vehicle.speed, 10))>>)
       /\ (strategy = "scenario" /\ PidOf(rx) = 12)
            => Answered(<<65, 12>> \o PackH(Clamp(0, 65535, engine.rpm * 4)))
       /\ (strategy = "physics" /\ PidOf(rx) = 13)
            => Answered(<<65, 13, Clamp(0, 255, Trunc(state.speed * 18, 5000))>>)
       /\ (strategy = "physics" /\ PidOf(rx) = 12)
            => Answered(<<65, 12>>
                        \o PackH(Clamp(0, 65535, Trunc(state.rpm * 4, 100))))
       /\ (strategy = "physics" /\ PidOf(rx) = 49)
            => Answered(<<65, 49>>
                        \o PackH(Clamp(0, 65535,
                                       123456 + state.odometer \div 100000)))

\* the PIDs with a branch in _get_obd2_response
PhysicsPids == {12, 13, 5, 17, 4, 47, 49}

\* C29: in the physics simulator an accepted request with a mode other than
\* 0x01, or a mode-01 request for a PID it does not handle, is answered by
\* exactly one frame that begins 0x7F followed by the request's mode; it is
\* never left without a reply.
C29_PhysicsNegativeResponse ==
    (strategy = "physics" /\ Handled /\ Accepted(rx) /\ rx.data[1] \in 1..7
     /\ (ModeOf(rx) # 1 \/ PidOf(rx) \notin PhysicsPids))
    => /\ Len(tx) = 1
       /\ \E k \in 1..2 : SubSeq(tx[1].data, k, k + 1) = <<127, ModeOf(rx)>>

----------------------------------------------------------------------------
(* The scenario timer: ticks that read the clock *)

\* random.randint(30, 120): the two ends and the duration next to the lower
Durations == {30, 31, 120}

\* what time.time() reads at a tick, in tenths of a second after
\* construction: one sleep after it, and instants on either side of those at
\* which a duration of Durations runs out
ClockReadings == {1, 300, 301, 310, 611, 1200, 1201, 1502}

\* a test that lets the scenario change the moment its duration has elapsed
BadScenarioDue(current_time, last_change, duration) ==
    current_time - last_change >= duration * 10

\* the test of _update_vehicle_state: the duration is in seconds
scenario_due(current_time, last_change, duration) ==
    current_time - last_change > duration * 10

\* the weights of _change_driving_scenario
scenario_weights(s) ==
    CASE s = "idle" -> 20 [] s = "city" -> 35 [] s = "highway" -> 20
      [] s = "aggressive" -> 5 [] s = "eco" -> 10 [] s = "parking" -> 5
      [] s = "traffic_jam" -> 5

\* _change_driving_scenario: what random.choices may return from the list
\* without the current scenario
change_driving_scenario(current) ==
    {s \in Scenarios \ {current} : scenario_weights(s) > 0}

\* the scenario strategy after construction, with any duration drawn
InitTimer ==
    /\ strategy = "scenario"
    /\ simulate_dtcs = FALSE
    /\ running = FALSE
    /\ engine = InitEngine
    /\ vehicle = InitVehicle
    /\ current_scenario = "idle"
    /\ since_change = 1
    /\ clock = 0
    /\ last_scenario_change = 0
    /\ scenario_duration \in Durations
    /\ phase_start_time = 0
    /\ mainPc = "main"
    /\ simulation_tick = 0
    /\ dtc_codes = <<>>
    /\ state = InitPhysicsState
    /\ phase = "city_1"
    /\ simulation_stats = InitStats
    /\ bus = "none"
    /\ stopPc = "idle"
    /\ simLoop = "off"
    /\ lisLoop = "off"
    /\ waited = 0
    /\ passed = {}
    /\ rx = NoMessage
    /\ tx = <<>>
    /\ simPc = "idle"
    /\ simDraw = NoDraw
    /\ lisPc = "recv"
    /\ lisCount = 0
    /\ obsPc = "idle"
    /\ snapshot = NoSnapshot
    /\ boundary = {}

\* the body of _update_vehicle_state with the clock read: current_time is
\* the reading, scenario and duration what _change_driving_scenario and
\* randint draw when the test finds the scenario due; the noise of the tick
\* is at its mean
TimedTick(current_time, scenario, duration) ==
    LET change == scenario_due(current_time, last_scenario_change,
                               scenario_duration)
    IN  /\ IF change
           THEN scenario \in change_driving_scenario(current_scenario)
           ELSE scenario = current_scenario /\ duration = scenario_duration
        /\ since_change' = (IF change THEN 0 ELSE 1)
        /\ current_scenario' = scenario
        /\ clock' = current_time
        /\ last_scenario_change' =
             (IF change THEN current_time ELSE last_scenario_change)
        /\ scenario_duration' = duration
        /\ UNCHANGED phase_start_time
        /\ UNCHANGED mainPc
        /\ LET r == CHOOSE u \in {update_vehicle_state(engine, vehicle,
                         dtc_codes, current_scenario, change, scenario, 0, 0,
                         FALSE, FALSE, possible_codes[1], FALSE)} : TRUE
           IN  /\ engine' = r.engine
               /\ vehicle' = r.vehicle
               /\ dtc_codes' = r.dtc_codes
        /\ simulation_tick' = simulation_tick + 1
        /\ UNCHANGED <<strategy, simulate_dtcs, running, state, phase,
                       simulation_stats, rx, tx>>
        /\ UNCHANGED threadVars
        /\ UNCHANGED stopVars

\* one iteration of _simulation_loop; the clock does not step back
TimedSimulationLoop ==
    /\ running /\ strategy = "scenario"
    /\ simulation_tick < MaxTick
    /\ \E current_time \in ClockReadings, scenario \in Scenarios,
          duration \in Durations :
         /\ current_time >= clock
         /\ TimedTick(current_time, scenario, duration)

NextTimer == Start \/ TimedSimulationLoop

SpecTimer == InitTimer /\ [][NextTimer]_vars

\* a tick in which the scenario is reselected
Reselects ==
    /\ strategy = "scenario"
    /\ simulation_tick' = simulation_tick + 1
    /\ since_change' = 0

\* the clock readings to come at which the current duration has run out
DueReadings ==
    {t \in ClockReadings :
       t >= clock /\ t - last_scenario_change > scenario_duration * 10}

\* the loop is running and such a reading can come
ReselectionDue ==
    /\ running /\ strategy = "scenario" /\ simulation_tick < MaxTick
    /\ DueReadings # {}

\* C30: whenever the scenario strategy reselects the active scenario the new
\* scenario differs from the one active before, and the clock then reads more
\* than the current duration, an integer of 30..120 seconds, after the
\* previous reselection (or construction); and when a reselection is due each
\* of the other six scenarios is a possible outcome of it.
C30_ScenarioReselection ==
    /\ [][Reselects
          => (/\ current_scenario' # current_scenario
              /\ scenario_duration \in 30..120
              /\ clock' - last_scenario_change > scenario_duration * 10)]_vars
    /\ [](ReselectionDue
          => \A s \in Scenarios \ {current_scenario} :
               \E t \in DueReadings, duration \in Durations :
                 ENABLED (TimedTick(t, s, duration) /\ current_scenario' = s))

\* C30 witness: the second tick of a run, 61.1 s after construction, has
\* reselected the scenario, and traffic_jam was drawn.
C30_Witness ==
    /\ strategy = "scenario" /\ simulation_tick = 2 /\ since_change = 0
    /\ clock = 611 /\ last_scenario_change = 611
    /\ current_scenario = "traffic_jam"
    /\ vehicle.gear # InitVehicle.gear \/ vehicle.speed # InitVehicle.speed
       \/ engine # InitEngine

----------------------------------------------------------------------------
(* The driving cycle: _update_phase with the clock read.  The clock is in  *)
(* tenths of a second after construction, as for the scenario timer.       *)

\* the last reading of the clock a run takes
MaxClock == 12000

\* what the clock shows between two calls of _update_phase that the model
\* follows: 30 s and 30.1 s, so that a reading can fall on the instant at
\* which a duration runs out and on either side of it
PhaseGaps == {300, 301}

\* a test that lets the phase go at the instant its duration runs out
BadPhaseExpired(current_time, start, p) ==
    current_time - start >= phase_durations(p) * 10

\* phase_elapsed > self.phase_durations[self.phase]
phase_expired(current_time, start, p) ==
    current_time - start > phase_durations(p) * 10

\* the physics strategy, constructed at clock 0
InitPhase == Init /\ strategy = "physics"

\* _update_phase, as a pass of _physics_loop calls it at reading
\* current_time; the rest of the pass writes fields of PhysicsState only
UpdatePhase(current_time) ==
    LET expired == phase_expired(current_time, phase_start_time, phase)
    IN  /\ phase' = update_phase(phase, expired)
        /\ phase_start_time' = (IF expired THEN current_time ELSE phase_start_time)
        /\ clock' = current_time
        /\ UNCHANGED <<last_scenario_change, scenario_duration>>
        /\ UNCHANGED mainPc
        /\ UNCHANGED <<strategy, simulate_dtcs, running, engine, vehicle,
                       current_scenario, since_change, simulation_tick,
                       dtc_codes, state, simulation_stats, rx, tx>>
        /\ UNCHANGED threadVars
        /\ UNCHANGED stopVars

\* the calls of _update_phase by the passes of _physics_loop; each pass
\* sleeps, so the clock has moved on by the next
PhaseLoop ==
    /\ running /\ strategy = "physics"
    /\ \E gap \in PhaseGaps :
         /\ clock + gap <= MaxClock
         /\ UpdatePhase(clock + gap)

NextPhase == Start \/ PhaseLoop

\* the physics thread is scheduled: its next pass comes
SpecPhase == InitPhase /\ [][NextPhase]_vars /\ WF_vars(PhaseLoop)

\* the phase after p in list(DrivingPhase), the last followed by the first
Successor(p) ==
    CASE p = "city_1" -> "light_1"
      [] p = "light_1" -> "city_2"
      [] p = "city_2" -> "light_2"
      [] p = "light_2" -> "highway"
      [] p = "highway" -> "parking"
      [] p = "parking" -> "city_1"

\* the longest a phase lasts: the longest duration and one gap
LongestPhase == 3000 + 301

\* the longest a cycle lasts: every duration and a gap after each
LongestCycle == 1800 + 300 + 1800 + 300 + 3000 + 600 + 6 * 301

\* C31: the phase changes only to its successor in the cycle, and only at a
\* reading more than the phase's duration after the reading at which it was
\* entered; while the clock advances every phase gives way to its successor,
\* and a run that starts in city_1 comes round to city_1 again, so every
\* phase is entered again and again
C31_PhaseCycle ==
    /\ [][phase' # phase =>
            /\ phase' = Successor(phase)
            /\ clock' - phase_start_time > phase_durations(phase) * 10
            /\ phase_start_time' = clock']_vars
    /\ [][phase' = phase => phase_start_time' = phase_start_time]_vars
    /\ \A p \in {DrivingPhases[i] : i \in 1..6} :
         (running /\ phase = p /\ clock <= MaxClock - LongestPhase)
            ~> (phase = Successor(p) /\ phase_start_time = clock)
    /\ (running /\ clock <= MaxClock - LongestCycle - 301)
          ~> (phase = "city_1" /\ phase_start_time > 7800)

\* the cycle has gone round once and city_1 has been entered for the second
\* time, a reading after the parking phase ran out
C31_Witness ==
    /\ strategy = "physics" /\ running
    /\ phase = "city_1"
    /\ phase_start_time > 7800
    /\ clock = phase_start_time

----------------------------------------------------------------------------
(* The DTC list over a longer run: demo codes, injections and clears *)

\* ticks of the simulation loop in a run that fills the DTC list
MaxDtcTick == 4

\* the catalog entries such a run draws from
InjectedCodes ==
    {possible_codes[1], possible_codes[2], possible_codes[5], possible_codes[6]}

\* CANBusSimulator(simulate_dtcs=True)
InitDtc == Init /\ strategy = "scenario" /\ simulate_dtcs

\* one iteration of _simulation_loop with the scenario kept and its noise at
\* the mean: inject is random() < 0.0001, code and promote the draws of
\* _add_random_dtc
DtcSimulationLoop ==
    /\ running /\ strategy = "scenario"
    /\ simulation_tick < MaxDtcTick
    /\ \E inject \in BOOLEAN, code \in InjectedCodes, promote \in BOOLEAN :
         /\ (~inject => (code = possible_codes[1] /\ ~promote))
         /\ LET r == update_vehicle_state(engine, vehicle, dtc_codes,
                         current_scenario, FALSE, current_scenario, 0, 0,
                         FALSE, inject, code, promote)
            IN  /\ engine' = r.engine
                /\ vehicle' = r.vehicle
                /\ dtc_codes' = r.dtc_codes
                /\ current_scenario' = r.current_scenario
                /\ since_change' = 1
    /\ simulation_tick' = simulation_tick + 1
    /\ UNCHANGED <<strategy, simulate_dtcs, running, state, phase, simulation_stats,
                   rx, tx>>
    /\ UNCHANGED threadVars
    /\ UNCHANGED stopVars
    /\ UNCHANGED timerVars
    /\ UNCHANGED mainPc

\* one iteration of _can_listener_loop in which bus.recv returns a mode-04
\* request and bus.send returns
DtcCanListenerLoop ==
    /\ running /\ strategy = "scenario"
    /\ lisPc = "recv"
    /\ simulation_stats.requests_received < MaxRequests
    /\ LET message == Msg(2015, Req(1, 4, 0))
           r == process_can_message(message, TRUE, engine, vehicle, dtc_codes)
       IN  /\ rx' = message
           /\ tx' = r.tx
           /\ vehicle' = r.vehicle
           /\ dtc_codes' = r.dtc_codes
           /\ simulation_stats' =
                [simulation_stats EXCEPT
                   !.requests_received = @ + 1,
                   !.responses_sent = @ + r.responses_sent]
    /\ lisPc' = "done"
    /\ UNCHANGED <<strategy, simulate_dtcs, running, engine, current_scenario, since_change,
                   simulation_tick, state, phase>>
    /\ UNCHANGED <<simPc, simDraw, lisCount, obsPc, snapshot, boundary>>
    /\ UNCHANGED stopVars
    /\ UNCHANGED timerVars
    /\ UNCHANGED mainPc

NextDtc == Start \/ DtcSimulationLoop \/ DtcCanListenerLoop \/ ListenerLoopsBack

SpecDtc == InitDtc /\ [][NextDtc]_vars

\* no two entries of the list d carry the same code
DistinctCodes(d) ==
    \A i, j \in 1..Len(d) : d[i].code = d[j].code => i = j

\* C32: the DTC list never holds more than 5 entries nor two entries with
\* the same code; a tick that injects appends one entry to the list, pending
\* or promoted to confirmed, and when it is confirmed mil_status is true
\* after the tick
C32_DtcListBounded ==
    /\ [](Len(dtc_codes) <= 5 /\ DistinctCodes(dtc_codes))
    /\ [][Len(dtc_codes') > Len(dtc_codes) /\ running =>
            /\ Len(dtc_codes') = Len(dtc_codes) + 1
            /\ SubSeq(dtc_codes', 1, Len(dtc_codes)) = dtc_codes
            /\ dtc_codes'[Len(dtc_codes')].status \in {"pending", "confirmed"}
            /\ (dtc_codes'[Len(dtc_codes')].status = "pending" =>
                  vehicle'.mil_status = vehicle.mil_status)
            /\ (dtc_codes'[Len(dtc_codes')].status = "confirmed" =>
                  vehicle'.mil_status)]_vars

\* the list is full after two demo codes and three injections, the last of
\* them promoted, and the fourth tick has come and gone: one tick added
\* nothing
C32_Witness ==
    /\ Len(dtc_codes) = 5
    /\ simulation_tick = MaxDtcTick
    /\ dtc_codes[5].status = "confirmed"
    /\ vehicle.mil_status

----------------------------------------------------------------------------
(* What the request handlers write *)

\* C33: in either simulator, handling a frame leaves the engine state, the
\* vehicle state, the DTC list and the physics state as they were, unless
\* the frame is an accepted request of mode 0x04 in the main simulator: the
\* handlers of modes 0x01, 0x03, 0x09 and of the unsupported modes only read.
C33_OnlyClearMutates ==
    [][Handles =>
         \/ /\ engine' = engine
            /\ vehicle' = vehicle
            /\ dtc_codes' = dtc_codes
            /\ state' = state
         \/ /\ strategy = "scenario"
            /\ Accepted(rx')
            /\ ModeOf(rx') = 4]_vars

\* C33 witness: the main simulator holds a pending DTC only, with the MIL on
\* and a dtc_count that differs from the count of confirmed DTCs, and has
\* just answered a mode-03 request; all of that is still as it was
C33_Witness ==
    /\ strategy = "scenario" /\ Handled
    /\ Accepted(rx) /\ ModeOf(rx) = 3
    /\ Len(tx) = 1
    /\ Len(dtc_codes) = 1 /\ dtc_codes[1].status = "pending"
    /\ vehicle.mil_status
    /\ vehicle.dtc_count = 1

----------------------------------------------------------------------------
(* The listener loops when handling a frame raises *)

\* a thread that an exception raised while a frame is handled would end
BadAfterException == "exited"

\* where the listener thread is once an exception raised while a frame is
\* handled has been caught: the except clause of the sender, of
\* _process_can_message or of the loop has logged it, and the while tests
\* its condition again
after_exception == "head"

\* a request that is answered positively, one that is answered negatively
\* by the main simulator, and a mode-04 request
FaultyRequests ==
    {Msg(2015, Req(2, 1, 12)), Msg(2016, Req(2, 1, 255)), Msg(2015, Req(1, 4, 0))}

\* handling message raised: bus.send raised, or _send_negative_response
\* came to its debug line, whose format spec raises after the frame went out
Raised(frames) ==
    \/ \E i \in 1..Len(frames) : ~frames[i].ok
    \/ \E i \in 1..Len(frames) : frames[i].data[1] = 127

\* the body of either listener's while: bus.recv(timeout=0.1) returns None
\* or a frame, which is handled; ok is whether bus.send returns
FaultyListenerIterates ==
    /\ lisLoop = "body"
    /\ \E message \in FaultyRequests \cup {NoMessage}, ok \in BOOLEAN :
         IF message = NoMessage
         THEN /\ ok
              /\ lisLoop' = "head"
              /\ UNCHANGED <<vehicle, dtc_codes, simulation_stats, rx, tx>>
         ELSE IF strategy = "scenario"
         THEN /\ simulation_stats.requests_received < MaxRequests
              /\ \E r \in {process_can_message(message, ok, engine, vehicle,
                                               dtc_codes)} :
                     /\ rx' = message
                     /\ tx' = r.tx
                     /\ vehicle' = r.vehicle
                     /\ dtc_codes' = r.dtc_codes
                     /\ simulation_stats' =
                          [simulation_stats EXCEPT
                             !.requests_received = @ + 1,
                             !.responses_sent = @ + r.responses_sent]
                     /\ lisLoop' = (IF Raised(r.tx) THEN after_exception
                                    ELSE "head")
         ELSE /\ \E frames \in {physics_process_can_message(message, ok, state)} :
                     /\ rx' = message
                     /\ tx' = frames
                     /\ lisLoop' = (IF Raised(frames) THEN after_exception
                                    ELSE "head")
              /\ UNCHANGED <<vehicle, dtc_codes, simulation_stats>>
    /\ passed' = passed \cup {"listener"}
    /\ UNCHANGED <<strategy, simulate_dtcs, running, engine, current_scenario,
                   since_change, simulation_tick, state, phase>>
    /\ UNCHANGED <<bus, stopPc, simLoop, waited>>
    /\ UNCHANGED threadVars
    /\ UNCHANGED timerVars
    /\ UNCHANGED mainPc

NextFaulty == Start \/ ListenerTestsFlag \/ FaultyListenerIterates

\* the listener thread is scheduled
SpecFaulty ==
    /\ Init /\ [][NextFaulty]_vars
    /\ WF_vars(ListenerTestsFlag) /\ WF_vars(FaultyListenerIterates)

\* a step in which bus.recv returns a frame, which is handled before the
\* step ends
ReceivesFrame ==
    /\ lisLoop = "body" /\ lisLoop' # "body"
    /\ <<rx', tx', simulation_stats'>> # <<rx, tx, simulation_stats>>

\* C34: an exception raised while a frame is handled does not end the
\* listener loop of either simulator.  While running is true the loop has
\* not exited; once handling a frame has raised (bus.send failed, or the
\* handler raised after sending) the thread comes back to bus.recv; and a
\* request for PID 0x0C received then is handled: its response frame
\* [0x04, 0x41, 0x0C, ...] is handed to bus.send.
C34_ListenerSurvivesFailure ==
    /\ [](lisLoop = "exited" => ~running)
    /\ [][(running /\ Raised(tx) /\ ReceivesFrame
           /\ rx' = Msg(2015, Req(2, 1, 12)))
          => (/\ Len(tx') = 1
              /\ SubSeq(tx'[1].data, 1, 3) = <<4, 65, 12>>
              /\ tx'[1].arbitration_id = 2024)]_vars
    /\ (running /\ Raised(tx) /\ lisLoop # "body") ~> (lisLoop = "body")

\* C34 witness: the main simulator has received two requests; handling the
\* first raised (responses_sent counts one reply only), and the second, for
\* PID 0x0C, has been answered and the thread is back at the head of its loop
C34_Witness ==
    /\ strategy = "scenario" /\ running
    /\ simulation_stats.requests_received = 2
    /\ simulation_stats.responses_sent = 1
    /\ rx = Msg(2015, Req(2, 1, 12))
    /\ Len(tx) = 1 /\ tx[1].ok /\ SubSeq(tx[1].data, 1, 3) = <<4, 65, 12>>
    /\ lisLoop = "head"

----------------------------------------------------------------------------
(* Engine run time *)

\* C35: the value the main simulator reports for mode-01 PID 0x1F is the
\* number of whole seconds the engine has run: after k ticks of the 100 Hz
\* simulation loop with is_running true the response carries
\* min(65535, floor(k / 100)) as a big-endian 16-bit number.
C35_RuntimeInSeconds ==
    [][(strategy = "scenario" /\ Handles /\ Accepted(rx')
        /\ ModeOf(rx') = 1 /\ PidOf(rx') = 31 /\ engine.is_running)
       => (/\ Len(tx') = 1
           /\ SubSeq(tx'[1].data, 1, 5) =
                <<4, 65, 31>> \o PackH(Min(65535, simulation_tick \div 100)))]_vars

----------------------------------------------------------------------------
(* Signals: the handler and the main thread's way out *)

\* SIGINT or SIGTERM arrives while the main thread waits in its loop (a
\* handler runs in the main thread): signal_handler calls stop(), whose
\* first statement sets running false
SignalHandler ==
    /\ mainPc = "main" /\ running /\ stopPc = "idle"
    /\ mainPc' = "handler"
    /\ running' = FALSE
    /\ stopPc' = "join_simulation"
    /\ waited' = 0
    /\ passed' = {}
    /\ UNCHANGED <<strategy, simulate_dtcs, engine, vehicle, current_scenario,
                   since_change, simulation_tick, dtc_codes, state, phase,
                   simulation_stats, rx, tx>>
    /\ UNCHANGED <<bus, simLoop, lisLoop>>
    /\ UNCHANGED threadVars
    /\ UNCHANGED timerVars

\* stop() has returned to the handler, which calls sys.exit(0).  In
\* can_simulator.py the SystemExit unwinds main(), whose finally clause
\* calls stop(); physics_obd_sim.py has no clause in the way and exits
SysExit ==
    /\ mainPc = "handler" /\ stopPc = "done"
    /\ IF strategy = "scenario"
       THEN /\ mainPc' = "finally"
            /\ running' = FALSE
            /\ stopPc' = "join_simulation"
            /\ waited' = 0
            /\ passed' = {}
       ELSE /\ mainPc' = "exited"
            /\ UNCHANGED <<running, stopPc, waited, passed>>
    /\ UNCHANGED <<strategy, simulate_dtcs, engine, vehicle, current_scenario,
                   since_change, simulation_tick, dtc_codes, state, phase,
                   simulation_stats, rx, tx>>
    /\ UNCHANGED <<bus, simLoop, lisLoop>>
    /\ UNCHANGED threadVars
    /\ UNCHANGED timerVars

\* the stop() of the finally clause has returned: the SystemExit goes on
\* and the process ends
ProcessExits ==
    /\ mainPc = "finally" /\ stopPc = "done"
    /\ mainPc' = "exited"
    /\ UNCHANGED <<strategy, simulate_dtcs, running, engine, vehicle,
                   current_scenario, since_change, simulation_tick, dtc_codes,
                   state, phase, simulation_stats, rx, tx>>
    /\ UNCHANGED stopVars
    /\ UNCHANGED threadVars
    /\ UNCHANGED timerVars

NextSignal ==
    Start \/ SimulationTestsFlag \/ SimulationIterates \/ ListenerTestsFlag
    \/ ListenerIterates \/ SignalHandler \/ SecondPasses \/ JoinSimulation
    \/ JoinListener \/ Shutdown \/ SysExit \/ ProcessExits

SpecSignal == InitDrive /\ [][NextSignal]_vars

\* C36: after a signal the shutdown sequence of the main simulator runs
\* exactly once: stop() is not entered again once it has returned, and the
\* step of stop() that shuts the bus down and emits the statistics is not
\* taken on a bus that was already shut down.
C36_ShutdownOnce ==
    /\ [][(strategy = "scenario" /\ stopPc = "done") => stopPc' = "done"]_vars
    /\ [][(strategy = "scenario" /\ stopPc = "shutdown" /\ stopPc' = "done")
          => bus # "closed"]_vars

----------------------------------------------------------------------------
(* Single frames *)

\* a frame is a positive response: byte 1 is a request mode plus 0x40
PositiveResponse(frame) ==
    frame.data[1] # 127 /\ frame.data[2] \in {65, 67, 68, 73}

\* C37: every positive response frame of the main simulator is a well-formed
\* single frame: byte 0 is at most 7 and is the number of payload bytes the
\* frame carries, the bytes behind them being padding; a mode-03 response
\* carries whole DTCs only, so its payload (0x43, the count, two bytes per
\* DTC) has an even length.
C37_WellFormedSingleFrame ==
    [][(strategy = "scenario" /\ Handles)
       => \A i \in 1..Len(tx') :
            PositiveResponse(tx'[i]) =>
              /\ tx'[i].data[1] <= 7
              /\ ZeroFrom(tx'[i].data, tx'[i].data[1] + 2)
              /\ (tx'[i].data[2] = 67 => tx'[i].data[1] % 2 = 0)]_vars

----------------------------------------------------------------------------
(* The mask and the dispatcher *)

\* the four mask bytes of the reply the main simulator gives to a request
\* for PID 0x00
MaskReturned ==
    SubSeq(handle_current_data_request(Msg(2015, Req(2, 1, 0)), TRUE, engine,
                                       vehicle, dtc_codes).tx[1].data, 4, 7)

\* C38: the supported-PID mask agrees with the dispatcher: a request for a
\* PID in 0x01..0x20 is answered by a positive response (0x41 and the PID)
\* exactly when the bit of that PID is set in the mask returned for PID 0x00.
C38_MaskAgreesWithDispatcher ==
    [][(strategy = "scenario" /\ Handles /\ Accepted(rx')
        /\ ModeOf(rx') = 1 /\ PidOf(rx') \in 1..32)
       => (MaskBit(MaskReturned, PidOf(rx') - 1) = 1
           <=> (/\ Len(tx') = 1
                /\ tx'[1].data[2] = 65
                /\ tx'[1].data[3] = PidOf(rx')))]_vars

----------------------------------------------------------------------------
(* A clear on the listener thread against an injection on the simulation   *)
(* thread, statement by statement                                          *)

\* bus.recv returns a mode-04 request; _handle_clear_codes_request runs
\* self.dtc_codes.clear()
ListenerClearsList ==
    /\ running /\ strategy = "scenario"
    /\ lisPc = "recv"
    /\ simulation_stats.requests_received < MaxRequests
    /\ rx' = Msg(2015, Req(1, 4, 0))
    /\ tx' = <<>>
    /\ dtc_codes' = <<>>
    /\ simulation_stats' = [simulation_stats EXCEPT !.requests_received = @ + 1]
    /\ lisPc' = "cleared"
    /\ UNCHANGED <<strategy, simulate_dtcs, running, engine, vehicle,
                   current_scenario, since_change, simulation_tick, state, phase>>
    /\ UNCHANGED <<simPc, simDraw, lisCount, obsPc, snapshot, boundary>>
    /\ UNCHANGED stopVars
    /\ UNCHANGED timerVars
    /\ UNCHANGED mainPc

\* _handle_clear_codes_request: self.vehicle.mil_status = False
ListenerClearsMil ==
    /\ lisPc = "cleared"
    /\ vehicle' = [vehicle EXCEPT !.mil_status = FALSE]
    /\ lisPc' = "mil_off"
    /\ UNCHANGED <<strategy, simulate_dtcs, running, engine, current_scenario,
                   since_change, simulation_tick, dtc_codes, state, phase,
                   simulation_stats, rx, tx>>
    /\ UNCHANGED <<simPc, simDraw, lisCount, obsPc, snapshot, boundary>>
    /\ UNCHANGED stopVars
    /\ UNCHANGED timerVars
    /\ UNCHANGED mainPc

\* _handle_clear_codes_request: self.vehicle.dtc_count = 0 and the positive
\* response
ListenerSendsCleared ==
    /\ lisPc = "mil_off"
    /\ LET r == send_obd_response(rx.arbitration_id, <<68>>, TRUE,
                                  [vehicle EXCEPT !.dtc_count = 0], dtc_codes)
       IN  /\ tx' = r.tx
           /\ vehicle' = r.vehicle
           /\ simulation_stats' =
                [simulation_stats EXCEPT !.responses_sent = @ + r.responses_sent]
    /\ lisPc' = "done"
    /\ UNCHANGED <<strategy, simulate_dtcs, running, engine, current_scenario,
                   since_change, simulation_tick, dtc_codes, state, phase, rx>>
    /\ UNCHANGED <<simPc, simDraw, lisCount, obsPc, snapshot, boundary>>
    /\ UNCHANGED stopVars
    /\ UNCHANGED timerVars
    /\ UNCHANGED mainPc

NextClear ==
    \/ Start
    \/ SimUpdatesTelemetry \/ SimAppendsDtc \/ SimConfirmsDtc \/ SimSetsMil
    \/ SimEndsTick
    \/ ListenerClearsList \/ ListenerClearsMil \/ ListenerSendsCleared
    \/ ListenerLoopsBack

SpecClear == InitThreads /\ [][NextClear]_vars

\* C39: however a clear on the listener thread interleaves with an
\* injection on the simulation thread, once the clear has been answered and
\* no tick is in progress mil_status is true only if the DTC list holds a
\* confirmed DTC; and the DTC a tick promotes is still in the list when it
\* is promoted
C39_ClearAgainstInjection ==
    /\ []((simPc = "idle" /\ lisPc = "done" /\ ModeOf(rx) = 4)
            => (vehicle.mil_status => confirmed_count(dtc_codes) > 0))
    /\ [][(simPc = "confirm" /\ simPc' = "mil")
          => holds_new_dtc(dtc_codes, simDraw.code)]_vars

----------------------------------------------------------------------------
(* Shutdown against a listener that is held up: nothing obliges a thread   *)
(* to run while stop() waits in a join                                     *)

\* the body of the main simulator's or the physics simulator's listener
\* loop, first half: bus.recv(timeout=0.1) returns None, or a frame, which
\* the thread is about to handle
HeldListenerReceives ==
    /\ lisLoop = "body"
    /\ bus = "open"
    /\ \E message \in DriveMessages \cup {NoMessage} :
         IF message = NoMessage
         THEN lisLoop' = "head" /\ UNCHANGED <<rx, tx, simulation_stats>>
         ELSE /\ strategy = "scenario" =>
                   simulation_stats.requests_received < MaxRequests
              /\ rx' = message
              /\ tx' = <<>>
              /\ simulation_stats' =
                   (IF strategy = "scenario"
                    THEN [simulation_stats EXCEPT !.requests_received = @ + 1]
                    ELSE simulation_stats)
              /\ lisLoop' = "handle"
    /\ UNCHANGED <<strategy, simulate_dtcs, running, engine, vehicle,
                   current_scenario, since_change, simulation_tick, dtc_codes,
                   state, phase>>
    /\ UNCHANGED <<bus, stopPc, simLoop, waited, passed>>
    /\ UNCHANGED threadVars
    /\ UNCHANGED timerVars
    /\ UNCHANGED mainPc

\* second half: _process_can_message runs and hands its reply to bus.send,
\* which raises on a bus that was shut down
HeldListenerHandles ==
    /\ lisLoop = "handle"
    /\ IF strategy = "scenario"
       THEN \E r \in {process_can_message(rx, bus = "open", engine, vehicle,
                                          dtc_codes)} :
              /\ tx' = r.tx
              /\ vehicle' = r.vehicle
              /\ dtc_codes' = r.dtc_codes
              /\ simulation_stats' =
                   [simulation_stats EXCEPT
                      !.responses_sent = @ + r.responses_sent]
       ELSE /\ tx' = physics_process_can_message(rx, bus = "open", state)
            /\ UNCHANGED <<vehicle, dtc_codes, simulation_stats>>
    /\ lisLoop' = "head"
    /\ UNCHANGED <<strategy, simulate_dtcs, running, engine, current_scenario,
                   since_change, simulation_tick, state, phase, rx>>
    /\ UNCHANGED <<bus, stopPc, simLoop, waited, passed>>
    /\ UNCHANGED threadVars
    /\ UNCHANGED timerVars
    /\ UNCHANGED mainPc

\* bus.recv on a bus that was shut down raises; the except clause of the
\* loop logs it (and, in the main simulator, counts an error)
HeldListenerRecvFails ==
    /\ lisLoop = "body"
    /\ bus = "closed"
    /\ simulation_stats' =
         (IF strategy = "scenario"
          THEN [simulation_stats EXCEPT !.errors = @ + 1]
          ELSE simulation_stats)
    /\ lisLoop' = "head"
    /\ UNCHANGED <<strategy, simulate_dtcs, running, engine, vehicle,
                   current_scenario, since_change, simulation_tick, dtc_codes,
                   state, phase, rx, tx>>
    /\ UNCHANGED <<bus, stopPc, simLoop, waited, passed>>
    /\ UNCHANGED threadVars
    /\ UNCHANGED timerVars
    /\ UNCHANGED mainPc

\* a second goes by while stop() waits in a join of a live thread, whether
\* or not the threads have run in it
SecondGoesBy ==
    /\ \/ stopPc = "join_simulation" /\ simLoop # "exited"
       \/ stopPc = "join_listener" /\ lisLoop # "exited"
    /\ waited < JoinTimeout
    /\ waited' = waited + 1
    /\ passed' = {}
    /\ UNCHANGED <<strategy, simulate_dtcs, running, engine, vehicle,
                   current_scenario, since_change, simulation_tick, dtc_codes,
                   state, phase, simulation_stats, rx, tx>>
    /\ UNCHANGED <<bus, stopPc, simLoop, lisLoop>>
    /\ UNCHANGED threadVars
    /\ UNCHANGED timerVars
    /\ UNCHANGED mainPc

NextHeld ==
    Start \/ SimulationTestsFlag \/ SimulationIterates \/ ListenerTestsFlag
    \/ HeldListenerReceives \/ HeldListenerHandles \/ HeldListenerRecvFails
    \/ Stop \/ SecondGoesBy \/ JoinSimulation \/ JoinListener \/ Shutdown

SpecHeld == InitDrive /\ [][NextHeld]_vars

\* C40: when stop() shuts the bus down the listener thread has exited or
\* can no longer reach bus.send: no frame is handed to bus.send on a bus
\* that was shut down
C40_NoSendAfterShutdown ==
    /\ [](bus = "closed" => lisLoop # "handle")
    /\ [][(lisLoop = "handle" /\ lisLoop' = "head" /\ tx' # <<>>)
          => bus # "closed"]_vars

====
